---- MODULE Spec2Model ----
(***************************************************************************)
(* A model of mooslib's numerics core (src/mooslib/math.h,                 *)
(* src/mooslib/transform.h, src/mooslib/core.h) and of its usage program   *)
(* (src/unnamed/part_001).                                                 *)
(*                                                                         *)
(* Scalars.  A value of the element type T = Float is modelled exactly:    *)
(* the record [a, b, d] with d > 0 stands for the real (a + b*sqrt(2))/d,  *)
(* kept in lowest terms so that equal values are equal records.  The       *)
(* records with d = 0 are the non-finite values of the type: 1/0 is        *)
(* +infinity, -1/0 is -infinity and 0/0 is NaN.  Rounding is not modelled  *)
(* (each operation returns the real result), and neither is the sign of    *)
(* zero.  sqrt(2) is in the field because the quarter turn of the usage    *)
(* program has sin = cos = sqrt(2)/2 at its half angle.                    *)
(***************************************************************************)
EXTENDS Integers, Sequences, FiniteSets, TLC

VARIABLES
    cfg,      \* the build's options: [asserts, hook] (core.h)
    op,       \* the operation last called
    args,     \* the arguments of the call (for aabb3, the point of the last call)
    result,   \* the value it handed back (meaningful when outcome = "returned")
    outcome,  \* "none", "returned" or "aborted"
    hookCalled, \* whether the call reached MOOSLIB_ON_BAD_DETERMINANT_IN_MATRIX_INVERSE()
    box,      \* an aabb3: [min, max]
    pts,      \* the points the box was expanded with, oldest first
    rnd       \* the threads that draw random numbers and their Random objects

vars == <<cfg, op, args, result, outcome, hookCalled, box, pts, rnd>>

----------------------------------------------------------------------------
(* Bounds of the model *)

\* vector components of the inputs range over -VecRange .. VecRange
VecRange == 1
\* angles of the inputs range over 0 .. MaxQuarterTurns quarter turns
MaxQuarterTurns == 4
\* matrix entries of the inputs range over -MatRange .. MatRange (beside the
\* matrices of the usage programs and the near-singular ones)
MatRange == 1
\* the most expandWithPoint calls on one aabb3
MaxPoints == 3
\* the threads that draw random numbers are 1 .. NumThreads
NumThreads == 2
\* the most draws of one thread
MaxDraws == 2

----------------------------------------------------------------------------
(* Integer helpers *)

RECURSIVE GCD(_, _)
GCD(m, n) == IF n = 0 THEN m ELSE GCD(n, m % n)

AbsInt(i) == IF i < 0 THEN -i ELSE i

GCD3(i, j, k) == GCD(GCD(AbsInt(i), AbsInt(j)), AbsInt(k))

RECURSIVE SqrtFrom(_, _)
SqrtFrom(n, r) == IF r * r >= n THEN r ELSE SqrtFrom(n, r + 1)

IsSquare(n) == n >= 0 /\ SqrtFrom(n, 0) * SqrtFrom(n, 0) = n

----------------------------------------------------------------------------
(* The element type T *)

\* (a + b*sqrt(2))/d in lowest terms, d # 0
Num(a, b, d) ==
    LET s == IF d < 0 THEN -1 ELSE 1
        g == GCD3(a, b, d)
    IN  [a |-> (s * a) \div g, b |-> (s * b) \div g, d |-> (s * d) \div g]

Rat(n, d) == Num(n, 0, d)
I(n) == [a |-> n, b |-> 0, d |-> 1]

PosInf == [a |-> 1, b |-> 0, d |-> 0]
NegInf == [a |-> -1, b |-> 0, d |-> 0]
NaN == [a |-> 0, b |-> 0, d |-> 0]

IsNaN(x) == x.d = 0 /\ x.a = 0
IsInf(x) == x.d = 0 /\ x.a # 0
IsFinite(x) == x.d # 0

\* C++ evaluates an operand once, before the operation: the operators below
\* bind their operands' values (p, q) and compute on those
Value(S) == CHOOSE r \in S : TRUE

\* the sign of x: -1, 0 or 1 (0 for NaN)
Sgn(x) ==
    LET sgn(p) ==
            IF p.d = 0 THEN p.a
            ELSE IF p.a >= 0 /\ p.b >= 0 THEN (IF p.a = 0 /\ p.b = 0 THEN 0 ELSE 1)
            ELSE IF p.a <= 0 /\ p.b <= 0 THEN -1
            ELSE IF p.a > 0     \* a > 0 > b: compare a with -b * sqrt(2)
                 THEN (IF p.a <= -p.b THEN -1
                       ELSE IF p.a >= 2 * (-p.b) THEN 1
                       ELSE IF p.a * p.a > 2 * p.b * p.b THEN 1 ELSE -1)
            ELSE (IF -p.a <= p.b THEN 1       \* b > 0 > a
                  ELSE IF -p.a >= 2 * p.b THEN -1
                  ELSE IF 2 * p.b * p.b > p.a * p.a THEN 1 ELSE -1)
    IN  Value({sgn(p) : p \in {x}})

Inf(s) == IF s < 0 THEN NegInf ELSE PosInf

\* unary minus
Neg(x) == Value({[a |-> -p.a, b |-> -p.b, d |-> p.d] : p \in {x}})

\* x + y
Add(x, y) ==
    LET sum(p, q) ==
            IF IsNaN(p) \/ IsNaN(q) THEN NaN
            ELSE IF IsInf(p) THEN (IF IsInf(q) /\ q.a # p.a THEN NaN ELSE p)
            ELSE IF IsInf(q) THEN q
            ELSE LET g == GCD(p.d, q.d)
                     fp == q.d \div g
                     fq == p.d \div g
                 IN  Num(p.a * fp + q.a * fq, p.b * fp + q.b * fq, p.d * fp)
    IN  Value({sum(p, q) : p \in {x}, q \in {y}})

\* x - y
Sub(x, y) == Add(x, Neg(y))

\* x * y
Mul(x, y) ==
    LET product(p, q) ==
            IF IsNaN(p) \/ IsNaN(q) THEN NaN
            ELSE IF IsInf(p) \/ IsInf(q)
                 THEN (IF Sgn(p) = 0 \/ Sgn(q) = 0 THEN NaN ELSE Inf(Sgn(p) * Sgn(q)))
            ELSE LET g1 == GCD3(p.a, p.b, q.d)
                     g2 == GCD3(q.a, q.b, p.d)
                     pa == p.a \div g1
                     pb == p.b \div g1
                     qa == q.a \div g2
                     qb == q.b \div g2
                 IN  Num(pa * qa + 2 * pb * qb, pa * qb + pb * qa,
                         (p.d \div g2) * (q.d \div g1))
    IN  Value({product(p, q) : p \in {x}, q \in {y}})

\* 1 / y for a finite y # 0
Recip(y) ==
    IF y.b = 0 THEN Num(y.d, 0, y.a)
    ELSE Num(y.d * y.a, -(y.d * y.b), y.a * y.a - 2 * y.b * y.b)

\* x / y
Div(x, y) ==
    LET quotient(p, q) ==
            IF IsNaN(p) \/ IsNaN(q) THEN NaN
            ELSE IF IsInf(p) THEN (IF IsInf(q) THEN NaN
                                   ELSE Inf(p.a * (IF Sgn(q) < 0 THEN -1 ELSE 1)))
            ELSE IF IsInf(q) THEN I(0)
            ELSE IF Sgn(q) = 0 THEN (IF Sgn(p) = 0 THEN NaN ELSE Inf(Sgn(p)))
            ELSE Mul(p, Recip(q))
    IN  Value({quotient(p, q) : p \in {x}, q \in {y}})

\* x < y   (false when either is NaN)
Less(x, y) ==
    \E p \in {x}, q \in {y} :
        /\ ~IsNaN(p)
        /\ ~IsNaN(q)
        /\ p # q
        /\ IF IsInf(p) THEN p.a = -1
           ELSE IF IsInf(q) THEN q.a = 1
           ELSE Sgn(Sub(q, p)) = 1

Greater(x, y) == Less(y, x)
LessEq(x, y) == \E p \in {x}, q \in {y} : ~IsNaN(p) /\ ~IsNaN(q) /\ (p = q \/ Less(p, q))
GreaterEq(x, y) == LessEq(y, x)

\* std::abs
Abs(x) == Value({IF Sgn(p) < 0 THEN Neg(p) ELSE p : p \in {x}})

\* std::min(a, b) is (b < a) ? b : a and std::max(a, b) is (a < b) ? b : a
stdmin(a, b) == Value({IF Less(q, p) THEN q ELSE p : p \in {a}, q \in {b}})
stdmax(a, b) == Value({IF Less(p, q) THEN q ELSE p : p \in {a}, q \in {b}})

\* the values whose square root is in the field
HasSqrt(x) ==
    \E p \in {x} :
        \/ p.d = 0
        \/ Sgn(p) < 0
        \/ p.b = 0 /\ (IsSquare(p.a * p.d) \/ IsSquare(2 * p.a * p.d))

\* std::sqrt, on the values HasSqrt admits
Sqrt(x) ==
    LET root(p) ==
            IF IsNaN(p) \/ Sgn(p) < 0 THEN NaN
            ELSE IF IsInf(p) THEN p
            ELSE IF IsSquare(p.a * p.d) THEN Num(SqrtFrom(p.a * p.d, 0), 0, p.d)
            ELSE LET r == CHOOSE r \in {SqrtFrom(2 * p.a * p.d, 0)} :
                              r * r = 2 * p.a * p.d
                 IN  Num(0, r, 2 * p.d)
    IN  Value({root(p) : p \in {x}})

\* std::numeric_limits<float>::epsilon() = 2^-23
EpsilonDenominator == 8388608
Epsilon == Rat(1, EpsilonDenominator)

square(x) == Mul(x, x)

----------------------------------------------------------------------------
(* Angles.  An angle of the inputs is a whole number k of quarter turns    *)
(* (k * pi/2, with HALF_PI = 1 and PI = 2), so its half is k eighth turns. *)

SqrtTwoHalf == Num(0, 1, 2)

\* std::sin and std::cos of k eighth turns
SinEighth(k) ==
    CASE k % 8 = 0 -> I(0)
      [] k % 8 = 1 -> SqrtTwoHalf
      [] k % 8 = 2 -> I(1)
      [] k % 8 = 3 -> SqrtTwoHalf
      [] k % 8 = 4 -> I(0)
      [] k % 8 = 5 -> Neg(SqrtTwoHalf)
      [] k % 8 = 6 -> I(-1)
      [] k % 8 = 7 -> Neg(SqrtTwoHalf)

CosEighth(k) == SinEighth(k + 2)

----------------------------------------------------------------------------
(* tvec3<T> and tvec4<T> *)

vec3(x, y, z) == [x |-> x, y |-> y, z |-> z]
vec4(x, y, z, w) == [x |-> x, y |-> y, z |-> z, w |-> w]

\* tvec4(const tvec3<T>& v, T w)
vec4From3(v, w) == [x |-> v.x, y |-> v.y, z |-> v.z, w |-> w]
\* the three-component prefix of a tvec4
xyz(v) == [x |-> v.x, y |-> v.y, z |-> v.z]

\* tvec3 operator-() const
neg3(v) == vec3(Neg(v.x), Neg(v.y), Neg(v.z))
\* tvec3 operator+(const tvec3&) const
add3(u, v) == vec3(Add(u.x, v.x), Add(u.y, v.y), Add(u.z, v.z))
\* tvec3 operator-(const tvec3&) const
sub3(u, v) == vec3(Sub(u.x, v.x), Sub(u.y, v.y), Sub(u.z, v.z))
\* tvec3 operator*(T f) const, and operator*(T lhs, const tvec3& rhs)
scale3(v, f) == vec3(Mul(v.x, f), Mul(v.y, f), Mul(v.z, f))
\* tvec3 operator/(T f) const
div3(v, f) == vec3(Div(v.x, f), Div(v.y, f), Div(v.z, f))

\* the product of the other hand: rhs x lhs
crossLeftHanded(lhs, rhs) ==
    vec3(Sub(Mul(rhs.y, lhs.z), Mul(rhs.z, lhs.y)),
         Sub(Mul(rhs.z, lhs.x), Mul(rhs.x, lhs.z)),
         Sub(Mul(rhs.x, lhs.y), Mul(rhs.y, lhs.x)))

cross(lhs, rhs) ==
    vec3(Sub(Mul(lhs.y, rhs.z), Mul(lhs.z, rhs.y)),
         Sub(Mul(lhs.z, rhs.x), Mul(lhs.x, rhs.z)),
         Sub(Mul(lhs.x, rhs.y), Mul(lhs.y, rhs.x)))

\* dot(const tvec3&, const tvec3&)
dot3(lhs, rhs) == Add(Add(Mul(lhs.x, rhs.x), Mul(lhs.y, rhs.y)), Mul(lhs.z, rhs.z))

\* dot(const tvec4&, const tvec4&)
dot4(lhs, rhs) ==
    Add(Add(Add(Mul(lhs.x, rhs.x), Mul(lhs.y, rhs.y)), Mul(lhs.z, rhs.z)),
        Mul(lhs.w, rhs.w))

length2(v) == dot3(v, v)
length(v) == Sqrt(length2(v))
distance(a, b) == length(sub3(a, b))
normalize(v) == div3(v, length(v))

globalX == vec3(I(1), I(0), I(0))
globalY == vec3(I(0), I(1), I(0))
globalZ == vec3(I(0), I(0), I(1))
globalRight == globalX
globalUp == globalY
globalForward == neg3(globalZ)

----------------------------------------------------------------------------
(* tquat<T> *)

tquat(v, w) == [vec |-> v, w |-> w]

\* tquat() : the identity rotation
tquatDefault == tquat(vec3(I(0), I(0), I(0)), I(1))

\* the product with the cross product of the vector parts left out
QuatTimesQuatWithoutCross(p, q) ==
    tquat(add3(scale3(q.vec, p.w), scale3(p.vec, q.w)),
          Sub(Mul(p.w, q.w), dot3(p.vec, q.vec)))

\* tquat operator*(const tquat& q) const
QuatTimesQuat(p, q) ==
    tquat(add3(add3(scale3(q.vec, p.w), scale3(p.vec, q.w)), cross(p.vec, q.vec)),
          Sub(Mul(p.w, q.w), dot3(p.vec, q.vec)))

\* tvec3 operator*(const tvec3& v) const
QuatTimesVec(q, v) ==
    LET t == scale3(cross(v, v), I(2))
        res == add3(add3(v, scale3(t, q.w)), cross(q.vec, t))
    IN  res

\* axisAngle(axis, angle), the angle in quarter turns
axisAngle(axis, angle) ==
    LET halfAngle == angle      \* angle / 2, in eighth turns
        v == scale3(axis, SinEighth(halfAngle))
        w == CosEighth(halfAngle)
    IN  tquat(v, w)

rotateVector(q, v) == QuatTimesVec(q, v)

HALF_PI == 1

----------------------------------------------------------------------------
(* tmat3<T> and tmat4<T>: the members x, y, z (and w) are the columns *)

mat3(x, y, z) == [x |-> x, y |-> y, z |-> z]
mat4(x, y, z, w) == [x |-> x, y |-> y, z |-> z, w |-> w]

\* explicit tmat3(T d)
mat3Diag(d) == mat3(vec3(d, I(0), I(0)), vec3(I(0), d, I(0)), vec3(I(0), I(0), d))
\* explicit tmat4(T d)
mat4Diag(d) ==
    mat4(vec4(d, I(0), I(0), I(0)), vec4(I(0), d, I(0), I(0)),
         vec4(I(0), I(0), d, I(0)), vec4(I(0), I(0), I(0), d))

\* the matrix handed back as it came
transpose3Unchanged(m) == m

\* transpose(const tmat3&)
transpose3(m) ==
    mat3(vec3(m.x.x, m.y.x, m.z.x),
         vec3(m.x.y, m.y.y, m.z.y),
         vec3(m.x.z, m.y.z, m.z.z))

\* transpose(const tmat4&)
transpose4(m) ==
    mat4(vec4(m.x.x, m.y.x, m.z.x, m.w.x),
         vec4(m.x.y, m.y.y, m.z.y, m.w.y),
         vec4(m.x.z, m.y.z, m.z.z, m.w.z),
         vec4(m.x.w, m.y.w, m.z.w, m.w.w))

\* the product taken with the columns of m where its rows belong
Mat3TimesMat3Untransposed(m, other) ==
    mat3(vec3(dot3(m.x, other.x), dot3(m.y, other.x), dot3(m.z, other.x)),
         vec3(dot3(m.x, other.y), dot3(m.y, other.y), dot3(m.z, other.y)),
         vec3(dot3(m.x, other.z), dot3(m.y, other.z), dot3(m.z, other.z)))

\* tmat3 operator*(const tmat3& other) const
Mat3TimesMat3(m, other) ==
    LET trans == transpose3(m)
    IN  mat3(vec3(dot3(trans.x, other.x), dot3(trans.y, other.x), dot3(trans.z, other.x)),
             vec3(dot3(trans.x, other.y), dot3(trans.y, other.y), dot3(trans.z, other.y)),
             vec3(dot3(trans.x, other.z), dot3(trans.y, other.z), dot3(trans.z, other.z)))

\* tvec3 operator*(const tvec3& v) const
Mat3TimesVec3(m, v) ==
    LET trans == transpose3(m)
    IN  vec3(dot3(trans.x, v), dot3(trans.y, v), dot3(trans.z, v))

\* tvec4 operator*(const tvec4& v) const: the value of its return expression,
\* the four members read being those of the transposed tmat4.  The source
\* declares trans as a tmat3<T>, which no call compiles with: see
\* Mat4TimesVec4WellFormed and CallMat4TimesVec4.
Mat4TimesVec4(m, v) ==
    LET trans == transpose4(m)
    IN  vec4(dot4(trans.x, v), dot4(trans.y, v), dot4(trans.z, v), dot4(trans.w, v))

quatToMatrix(q) ==
    LET a == q.w
        b == q.vec.x
        c == q.vec.y
        d == q.vec.z
        a2 == square(a)
        b2 == square(b)
        c2 == square(c)
        d2 == square(d)
    IN  mat4(vec4(Sub(Sub(Add(a2, b2), c2), d2),
                  Mul(I(2), Add(Mul(b, c), Mul(a, d))),
                  Mul(I(2), Sub(Mul(b, d), Mul(a, c))),
                  I(0)),
             vec4(Mul(I(2), Sub(Mul(b, c), Mul(a, d))),
                  Sub(Add(Sub(a2, b2), c2), d2),
                  Mul(I(2), Add(Mul(c, d), Mul(a, b))),
                  I(0)),
             vec4(Mul(I(2), Add(Mul(b, d), Mul(a, c))),
                  Mul(I(2), Sub(Mul(c, d), Mul(a, b))),
                  Add(Sub(Sub(a2, b2), c2), d2),
                  I(0)),
             vec4(I(0), I(0), I(0), I(1)))

\* quatFromMatrix(const tmat4&), up to the scaling: the branch taken, the
\* quaternion q it assigns and t
quatFromMatrixBranch(m) ==
    LET m00 == m.x.x
        m11 == m.y.y
        m22 == m.z.z
    IN  IF Less(m22, I(0))
        THEN IF Greater(m00, m11)
             THEN LET t == Add(I(1), Sub(Sub(m00, m11), m22))
                  IN  [branch |-> 1, t |-> t,
                       q |-> tquat(vec3(t, Add(m.x.y, m.y.x), Add(m.z.x, m.x.z)),
                                   Sub(m.y.z, m.z.y))]
             ELSE LET t == Add(I(1), Sub(Add(Neg(m00), m11), m22))
                  IN  [branch |-> 2, t |-> t,
                       q |-> tquat(vec3(Add(m.x.y, m.y.x), t, Add(m.y.z, m.z.y)),
                                   Sub(m.z.x, m.x.z))]
        ELSE IF Less(m00, Neg(m11))
             THEN LET t == Add(I(1), Add(Sub(Neg(m00), m11), m22))
                  IN  [branch |-> 3, t |-> t,
                       q |-> tquat(vec3(Add(m.z.x, m.x.z), Add(m.y.z, m.z.y), t),
                                   Sub(m.x.y, m.y.x))]
             ELSE LET t == Add(I(1), Add(Add(m00, m11), m22))
                  IN  [branch |-> 4, t |-> t,
                       q |-> tquat(vec3(Sub(m.y.z, m.z.y), Sub(m.z.x, m.x.z),
                                        Sub(m.x.y, m.y.x)), t)]

\* the quaternion of the branch, with the scaling left out
quatFromMatrixUnscaled(m) == quatFromMatrixBranch(m).q

\* quatFromMatrix(const tmat4&)
quatFromMatrix(m) ==
    LET scaled(s, scale) == tquat(scale3(s.q.vec, scale), Mul(s.q.w, scale))
        of(s) == Value({scaled(s, scale) : scale \in {Div(Rat(1, 2), Sqrt(s.t))}})
    IN  Value({of(s) : s \in {quatFromMatrixBranch(m)}})

\* a cofactor expansion whose second term is added, not subtracted
determinantSignSlip(m) ==
    Add(Add(Mul(m.x.x, Sub(Mul(m.y.y, m.z.z), Mul(m.y.z, m.z.y))),
            Mul(m.y.x, Sub(Mul(m.x.y, m.z.z), Mul(m.z.y, m.x.z)))),
        Mul(m.z.x, Sub(Mul(m.x.y, m.y.z), Mul(m.y.y, m.x.z))))

\* determinant(const tmat3&)
determinant(m) ==
    Add(Sub(Mul(m.x.x, Sub(Mul(m.y.y, m.z.z), Mul(m.y.z, m.z.y))),
            Mul(m.y.x, Sub(Mul(m.x.y, m.z.z), Mul(m.z.y, m.x.z)))),
        Mul(m.z.x, Sub(Mul(m.x.y, m.y.z), Mul(m.y.y, m.x.z))))

\* a test that also rejects |det| = epsilon
BadDeterminantInclusive(det) == LessEq(Abs(det), Epsilon)

\* the test both inverse functions make before they divide:
\* std::abs(det) < std::numeric_limits<T>::epsilon()
BadDeterminant(det) == Less(Abs(det), Epsilon)

\* the matrix of cofactors, with the division by the determinant left out
inverse3WithoutDivision(m) ==
    mat3(vec3(Sub(Mul(m.y.y, m.z.z), Mul(m.y.z, m.z.y)),
              Sub(Mul(m.z.y, m.x.z), Mul(m.x.y, m.z.z)),
              Sub(Mul(m.x.y, m.y.z), Mul(m.x.z, m.y.y))),
         vec3(Sub(Mul(m.z.x, m.y.z), Mul(m.y.x, m.z.z)),
              Sub(Mul(m.x.x, m.z.z), Mul(m.z.x, m.x.z)),
              Sub(Mul(m.x.z, m.y.x), Mul(m.x.x, m.y.z))),
         vec3(Sub(Mul(m.y.x, m.z.y), Mul(m.z.x, m.y.y)),
              Sub(Mul(m.x.y, m.z.x), Mul(m.x.x, m.z.y)),
              Sub(Mul(m.x.x, m.y.y), Mul(m.x.y, m.y.x))))

\* inverse(const tmat3&): the matrix it builds when control reaches the return
inverse3(m) ==
    LET det == determinant(m)
        invDet == Div(I(1), det)
    IN  mat3(vec3(Mul(Sub(Mul(m.y.y, m.z.z), Mul(m.y.z, m.z.y)), invDet),
                  Mul(Sub(Mul(m.z.y, m.x.z), Mul(m.x.y, m.z.z)), invDet),
                  Mul(Sub(Mul(m.x.y, m.y.z), Mul(m.x.z, m.y.y)), invDet)),
             vec3(Mul(Sub(Mul(m.z.x, m.y.z), Mul(m.y.x, m.z.z)), invDet),
                  Mul(Sub(Mul(m.x.x, m.z.z), Mul(m.z.x, m.x.z)), invDet),
                  Mul(Sub(Mul(m.x.z, m.y.x), Mul(m.x.x, m.y.z)), invDet)),
             vec3(Mul(Sub(Mul(m.y.x, m.z.y), Mul(m.z.x, m.y.y)), invDet),
                  Mul(Sub(Mul(m.x.y, m.z.x), Mul(m.x.x, m.z.y)), invDet),
                  Mul(Sub(Mul(m.x.x, m.y.y), Mul(m.x.y, m.y.x)), invDet)))

\* inverse(const tmat4&): s[0..5] and c[0..5], here s[1..6] and c[1..6]
inverse4s(m) ==
    << Sub(Mul(m.x.x, m.y.y), Mul(m.y.x, m.x.y)),
       Sub(Mul(m.x.x, m.y.z), Mul(m.y.x, m.x.z)),
       Sub(Mul(m.x.x, m.y.w), Mul(m.y.x, m.x.w)),
       Sub(Mul(m.x.y, m.y.z), Mul(m.y.y, m.x.z)),
       Sub(Mul(m.x.y, m.y.w), Mul(m.y.y, m.x.w)),
       Sub(Mul(m.x.z, m.y.w), Mul(m.y.z, m.x.w)) >>

\* c[3] with an index slip in its second product
inverse4cIndexSlip(m) ==
    << Sub(Mul(m.z.x, m.w.y), Mul(m.w.x, m.z.y)),
       Sub(Mul(m.z.x, m.w.z), Mul(m.w.x, m.z.z)),
       Sub(Mul(m.z.x, m.w.w), Mul(m.w.x, m.z.w)),
       Sub(Mul(m.z.y, m.w.z), Mul(m.w.y, m.z.y)),
       Sub(Mul(m.z.y, m.w.w), Mul(m.w.y, m.z.w)),
       Sub(Mul(m.z.z, m.w.w), Mul(m.w.z, m.z.w)) >>

inverse4c(m) ==
    << Sub(Mul(m.z.x, m.w.y), Mul(m.w.x, m.z.y)),
       Sub(Mul(m.z.x, m.w.z), Mul(m.w.x, m.z.z)),
       Sub(Mul(m.z.x, m.w.w), Mul(m.w.x, m.z.w)),
       Sub(Mul(m.z.y, m.w.z), Mul(m.w.y, m.z.z)),
       Sub(Mul(m.z.y, m.w.w), Mul(m.w.y, m.z.w)),
       Sub(Mul(m.z.z, m.w.w), Mul(m.w.z, m.z.w)) >>

\* inverse(const tmat4&): det, from s and c
inverse4detOf(s, c) ==
    Add(Sub(Add(Add(Sub(Mul(s[1], c[6]), Mul(s[2], c[5])), Mul(s[3], c[4])),
                Mul(s[4], c[3])),
            Mul(s[5], c[2])),
        Mul(s[6], c[1]))

inverse4det(m) == inverse4detOf(inverse4s(m), inverse4c(m))

\* p*a - q*b + r*c and -p*a + q*b - r*c
Plus3(p, a, q, b, r, c) == Add(Sub(Mul(p, a), Mul(q, b)), Mul(r, c))
Minus3(p, a, q, b, r, c) == Sub(Add(Mul(Neg(p), a), Mul(q, b)), Mul(r, c))

\* inverse(const tmat4&): the entries of res, from s, c and invDet
inverse4res(m, s, c, invDet) ==
    mat4(vec4(Mul(Plus3(m.y.y, c[6], m.y.z, c[5], m.y.w, c[4]), invDet),
              Mul(Minus3(m.x.y, c[6], m.x.z, c[5], m.x.w, c[4]), invDet),
              Mul(Plus3(m.w.y, s[6], m.w.z, s[5], m.w.w, s[4]), invDet),
              Mul(Minus3(m.z.y, s[6], m.z.z, s[5], m.z.w, s[4]), invDet)),
         vec4(Mul(Minus3(m.y.x, c[6], m.y.z, c[3], m.y.w, c[2]), invDet),
              Mul(Plus3(m.x.x, c[6], m.x.z, c[3], m.x.w, c[2]), invDet),
              Mul(Minus3(m.w.x, s[6], m.w.z, s[3], m.w.w, s[2]), invDet),
              Mul(Plus3(m.z.x, s[6], m.z.z, s[3], m.z.w, s[2]), invDet)),
         vec4(Mul(Plus3(m.y.x, c[5], m.y.y, c[3], m.y.w, c[1]), invDet),
              Mul(Minus3(m.x.x, c[5], m.x.y, c[3], m.x.w, c[1]), invDet),
              Mul(Plus3(m.w.x, s[5], m.w.y, s[3], m.w.w, s[1]), invDet),
              Mul(Minus3(m.z.x, s[5], m.z.y, s[3], m.z.w, s[1]), invDet)),
         vec4(Mul(Minus3(m.y.x, c[4], m.y.y, c[2], m.y.z, c[1]), invDet),
              Mul(Plus3(m.x.x, c[4], m.x.y, c[2], m.x.z, c[1]), invDet),
              Mul(Minus3(m.w.x, s[4], m.w.y, s[2], m.w.z, s[1]), invDet),
              Mul(Plus3(m.z.x, s[4], m.z.y, s[2], m.z.z, s[1]), invDet)))

\* inverse(const tmat4&): the matrix it builds when control reaches the return
inverse4(m) ==
    Value({inverse4res(m, s, c, Div(I(1), inverse4detOf(s, c))) :
               s \in {inverse4s(m)}, c \in {inverse4c(m)}})

\* tmat4 operator*(const tmat4& other) const
Mat4TimesMat4(m, other) ==
    LET trans == transpose4(m)
        col(o) == vec4(dot4(trans.x, o), dot4(trans.y, o), dot4(trans.z, o),
                       dot4(trans.w, o))
    IN  mat4(col(other.x), col(other.y), col(other.z), col(other.w))

----------------------------------------------------------------------------
(* The build's options (core.h).  asserts: whether a failing MOOSLIB_ASSERT *)
(* (assert) stops the program; it does not when NDEBUG is defined.  hook:   *)
(* what MOOSLIB_ON_BAD_DETERMINANT_IN_MATRIX_INVERSE() is: "default" is     *)
(* MOOSLIB_ASSERT(false); an embedding application may redefine it as a     *)
(* handler that returns ("returns") or one that does not ("stops").         *)

Hooks == {"default", "returns", "stops"}
Cfgs == [asserts : BOOLEAN, hook : Hooks]
DefaultCfgs == [asserts : BOOLEAN, hook : {"default"}]

\* MOOSLIB_ASSERT(x): whether control goes on past it
AssertPasses(c, x) == x \/ ~c.asserts

\* MOOSLIB_ON_BAD_DETERMINANT_IN_MATRIX_INVERSE(): whether control goes on past it
HookReturns(c) ==
    CASE c.hook = "default" -> AssertPasses(c, FALSE)
      [] c.hook = "returns" -> TRUE
      [] c.hook = "stops" -> FALSE

\* a box that starts out as all of space
aabb3Everything ==
    [min |-> [x |-> NegInf, y |-> NegInf, z |-> NegInf],
     max |-> [x |-> PosInf, y |-> PosInf, z |-> PosInf]]

\* aabb3(): the default-constructed box
aabb3Default ==
    [min |-> vec3(PosInf, PosInf, PosInf), max |-> vec3(NegInf, NegInf, NegInf)]

Threads == 1 .. NumThreads

\* no thread has called Random::instanceForThisThread yet: no Random object
\* is constructed.  constructed and engine are per object, the other fields
\* per thread: pc is where the thread is in its draw, ref the object the
\* last call returned to it, returned every object ever returned to it,
\* loaded the engine state its draw has read, users the threads that have
\* read or written the engine of an object.
NoRandom ==
    [constructed |-> [i \in Threads |-> FALSE],
     engine |-> [i \in Threads |-> 0],
     users |-> [i \in Threads |-> {}],
     pc |-> [t \in Threads |-> "idle"],
     ref |-> [t \in Threads |-> 0],
     returned |-> [t \in Threads |-> {}],
     loaded |-> [t \in Threads |-> 0],
     draws |-> [t \in Threads |-> 0]]

\* the state before the call
Idle ==
    /\ rnd = NoRandom
    /\ op = "none"
    /\ result = <<>>
    /\ outcome = "none"
    /\ hookCalled = FALSE
    /\ box = aabb3Default
    /\ pts = <<>>

\* a call that handed back r; a behaviour is one call on the arguments drawn
Returned(name, r) ==
    /\ op = "none"
    /\ op' = name
    /\ result' = r
    /\ outcome' = "returned"
    /\ UNCHANGED args

\* a call that control did not come back from; r holds what it had computed
Aborted(name, r) ==
    /\ op = "none"
    /\ op' = name
    /\ result' = r
    /\ outcome' = "aborted"
    /\ UNCHANGED args

----------------------------------------------------------------------------
(* Inputs *)

Components == {I(n) : n \in -VecRange .. VecRange}
Vecs3 == {vec3(x, y, z) : x \in Components, y \in Components, z \in Components}

Axes == {globalX, globalY, globalZ, neg3(globalX), neg3(globalY), neg3(globalZ)}

\* rotations: by quarter turns about the axes, and four with rational components
Quats ==
    {axisAngle(ax, k) : ax \in Axes, k \in 0 .. MaxQuarterTurns}
    \cup {tquat(vec3(Rat(1, 2), Rat(1, 2), Rat(1, 2)), Rat(1, 2)),
          tquat(vec3(Rat(4, 5), I(0), I(0)), Rat(3, 5)),
          tquat(vec3(Rat(1, 3), Rat(2, 3), I(0)), Rat(-2, 3)),
          tquat(vec3(Rat(2, 7), Rat(-3, 7), Rat(6, 7)), I(0))}
    \cup {tquat(vec3(I(1), I(1), I(0)), I(1)), tquat(vec3(I(0), I(0), I(0)), I(2))}

IsUnit(q) == Add(square(q.w), length2(q.vec)) = I(1)

----------------------------------------------------------------------------
(* The quaternion operations, and the quat block of the usage program *)

QuatInputs ==
    {[kind |-> "quat", q |-> q, v |-> v] : q \in Quats, v \in Vecs3}
    \cup {[kind |-> "test"]}

CallQuatTimesVec ==
    /\ args.kind = "quat"
    /\ Returned("quatTimesVec", QuatTimesVec(args.q, args.v))
    /\ UNCHANGED <<cfg, hookCalled, box, pts, rnd>>

CallRotateVector ==
    /\ args.kind = "quat"
    /\ Returned("rotateVector", rotateVector(args.q, args.v))
    /\ UNCHANGED <<cfg, hookCalled, box, pts, rnd>>

CallQuatToMatrix ==
    /\ args.kind = "quat"
    /\ Returned("quatToMatrix", quatToMatrix(args.q))
    /\ UNCHANGED <<cfg, hookCalled, box, pts, rnd>>

\* 1e-6f
TestTolerance == Rat(1, 1000000)

\* main(), the "quat:" block: two asserts in a row
QuatTest ==
    LET q == axisAngle(globalUp, HALF_PI)
        diff1 == distance(QuatTimesVec(q, globalRight), globalForward)
        diff2 == distance(rotateVector(q, globalRight), globalForward)
        r == [diff1 |-> diff1, diff2 |-> diff2]
    IN  /\ args.kind = "test"
        /\ IF /\ AssertPasses(cfg, Less(diff1, TestTolerance))
              /\ AssertPasses(cfg, Less(diff2, TestTolerance))
           THEN Returned("quatTest", r)
           ELSE Aborted("quatTest", r)
        /\ UNCHANGED <<cfg, hookCalled, box, pts, rnd>>

InitQuat == cfg \in DefaultCfgs /\ args \in QuatInputs /\ Idle

NextQuat ==
    \/ CallQuatTimesVec
    \/ CallRotateVector
    \/ CallQuatToMatrix
    \/ QuatTest

SpecQuat == InitQuat /\ [][NextQuat]_vars

----------------------------------------------------------------------------
(* Matrix inversion *)

\* main(), the "mat3:" and "mat4:" blocks of the two usage programs
TestMat3 == mat3(vec3(I(1), I(3), I(2)), vec3(I(2), I(2), I(1)), vec3(I(3), I(1), I(3)))
SingularMat3 == mat3(vec3(I(1), I(2), I(3)), vec3(I(4), I(5), I(6)), vec3(I(7), I(8), I(9)))
TestMat4 ==
    mat4(vec4(I(1), I(3), I(2), I(2)), vec4(I(2), I(2), I(1), I(1)),
         vec4(I(3), I(1), I(3), I(2)), vec4(I(4), I(4), I(4), I(4)))
SingularMat4 ==
    mat4(vec4(I(1), I(2), I(3), I(4)), vec4(I(5), I(6), I(7), I(8)),
         vec4(I(9), I(10), I(11), I(12)), vec4(I(13), I(14), I(15), I(16)))

\* columns whose determinants fall on both sides of epsilon, and on it
TinyCols3 ==
    {vec3(I(0), I(0), e) : e \in {Epsilon, Neg(Epsilon), Mul(Epsilon, Rat(1, 2)),
                                  Mul(Epsilon, I(2))}}

\* third columns: every integer vector of the range, and the columns around epsilon
MatCols3 ==
    {vec3(I(a), I(b), I(c)) : a \in -MatRange .. MatRange, b \in -MatRange .. MatRange,
                              c \in -MatRange .. MatRange}
    \cup TinyCols3

Mats3 ==
    {mat3(x, y, z) : x \in {vec3(I(1), I(0), I(0)), vec3(I(1), I(1), I(0)), vec3(I(0), I(1), I(1))},
                     y \in {vec3(I(0), I(1), I(0)), vec3(I(1), I(1), I(0)), vec3(I(1), I(0), I(1))},
                     z \in MatCols3}
    \cup {TestMat3, SingularMat3}

MatCols4 ==
    {vec4(I(1), I(0), I(0), I(0)), vec4(I(0), I(1), I(0), I(0)),
     vec4(I(0), I(0), I(1), I(0)), vec4(I(0), I(0), I(0), I(1)),
     vec4(I(0), I(0), I(0), Epsilon), vec4(I(0), I(0), I(0), Mul(Epsilon, Rat(1, 2))),
     vec4(I(1), I(-1), I(0), I(2))}
    \cup {vec4(I(k), I(k + 1), I(0), I(1)) : k \in 1 .. MatRange}

Mats4 ==
    {mat4(x, y, z, w) : x \in {vec4(I(1), I(0), I(0), I(0)), vec4(I(1), I(-1), I(0), I(2))},
                        y \in {vec4(I(0), I(1), I(0), I(0)), vec4(I(1), I(0), I(0), I(0))},
                        z \in {vec4(I(0), I(0), I(1), I(0)), vec4(I(2), I(0), I(1), I(1))},
                        w \in MatCols4}
    \cup {TestMat4, SingularMat4}

MatInputs ==
    {[kind |-> "mat3", m |-> m] : m \in Mats3}
    \cup {[kind |-> "mat4", m |-> m] : m \in Mats4}

CallDeterminant ==
    /\ args.kind = "mat3"
    /\ Returned("determinant", determinant(args.m))
    /\ UNCHANGED <<cfg, hookCalled, box, pts, rnd>>

\* inverse(const tmat3&): the hook is reached when the determinant is bad, and
\* the function goes on to divide and return when the hook gives control back
CallInverse3 ==
    LET bad == BadDeterminant(determinant(args.m))
    IN  /\ args.kind = "mat3"
        /\ IF bad /\ ~HookReturns(cfg)
           THEN Aborted("inverse3", <<>>)
           ELSE Returned("inverse3", inverse3(args.m))
        /\ hookCalled' = bad
        /\ UNCHANGED <<cfg, box, pts, rnd>>

\* inverse(const tmat4&)
CallInverse4 ==
    LET bad == BadDeterminant(inverse4det(args.m))
    IN  /\ args.kind = "mat4"
        /\ IF bad /\ ~HookReturns(cfg)
           THEN Aborted("inverse4", <<>>)
           ELSE Returned("inverse4", inverse4(args.m))
        /\ hookCalled' = bad
        /\ UNCHANGED <<cfg, box, pts, rnd>>

InitMat == cfg \in Cfgs /\ args \in MatInputs /\ Idle

NextMat ==
    \/ CallDeterminant
    \/ CallInverse3
    \/ CallInverse4

SpecMat == InitMat /\ [][NextMat]_vars

----------------------------------------------------------------------------
(* View and projection matrices (transform.h, and the revision of lookAt   *)
(* and of the projections in math.h).  A field of view is an angle that is *)
(* either a whole number of quarter turns (small = 0) or, with turns = 0,  *)
(* an angle of a few epsilon, for which std::tan(x / 2) is x / 2 in T.     *)

QuarterTurns(k) == [turns |-> k, small |-> I(0)]
SmallAngle(s) == [turns |-> 0, small |-> s]

\* fovy > std::numeric_limits<T>::epsilon()
AngleExceedsEpsilon(fovy) ==
    fovy.turns > 0 \/ (fovy.turns = 0 /\ Greater(fovy.small, Epsilon))

\* std::tan(fovy / static_cast<T>(2))
TanHalf(fovy) ==
    IF fovy.turns = 0 THEN Div(fovy.small, I(2))
    ELSE Div(SinEighth(fovy.turns), CosEighth(fovy.turns))

\* the three MOOSLIB_ASSERT conditions of both perspective projections
PerspectiveAsserts(fovy, aspectRatio, zNear, zFar) ==
    << Greater(Abs(Sub(aspectRatio, Epsilon)), I(0)),
       Greater(Abs(Sub(zFar, zNear)), Epsilon),
       AngleExceedsEpsilon(fovy) >>

\* tmat4<T> m(0) with the five entries the projections assign
ProjectionEntries(xx, yy, zz, zw, wz) ==
    mat4(vec4(xx, I(0), I(0), I(0)),
         vec4(I(0), yy, I(0), I(0)),
         vec4(I(0), I(0), zz, zw),
         vec4(I(0), I(0), wz, I(0)))

\* the Vulkan depth range with the y scale of OpenGL
perspectiveProjectionUnflipped(fovy, aspectRatio, zNear, zFar) ==
    Value({ProjectionEntries(Div(I(1), Mul(aspectRatio, tanHalfFovy)),
                             Div(I(1), tanHalfFovy),
                             Div(zFar, Sub(zNear, zFar)),
                             Neg(I(1)),
                             Div(Neg(Mul(zFar, zNear)), Sub(zFar, zNear))) :
               tanHalfFovy \in {TanHalf(fovy)}})

perspectiveProjectionToVulkanClipSpace(fovy, aspectRatio, zNear, zFar) ==
    Value({ProjectionEntries(Div(I(1), Mul(aspectRatio, tanHalfFovy)),
                             Div(Neg(I(1)), tanHalfFovy),
                             Div(zFar, Sub(zNear, zFar)),
                             Neg(I(1)),
                             Div(Neg(Mul(zFar, zNear)), Sub(zFar, zNear))) :
               tanHalfFovy \in {TanHalf(fovy)}})

perspectiveProjectionToOpenGLClipSpace(fovy, aspectRatio, zNear, zFar) ==
    Value({ProjectionEntries(Div(I(1), Mul(aspectRatio, tanHalfFovy)),
                             Div(I(1), tanHalfFovy),
                             Div(Neg(Add(zFar, zNear)), Sub(zFar, zNear)),
                             Neg(I(1)),
                             Div(Neg(Mul(Mul(I(2), zFar), zNear)), Sub(zFar, zNear))) :
               tanHalfFovy \in {TanHalf(fovy)}})

\* lookAt of transform.h: mTrans and its transpose, from the basis
lookAtMatrix(eye, forward, right, up) ==
    transpose4(mat4(vec4From3(right, I(0)),
                    vec4From3(up, I(0)),
                    vec4From3(neg3(forward), I(0)),
                    vec4(Neg(dot3(right, eye)), Neg(dot3(up, eye)), dot3(forward, eye),
                         I(1))))

\* lookAt of transform.h
lookAt(eye, target, tempUp) ==
    Value({lookAtMatrix(eye, forward, right, cross(right, forward)) :
               forward \in {normalize(sub3(target, eye))},
               right \in {normalize(cross(normalize(sub3(target, eye)), tempUp))}})

\* lookAt of the revision in math.h
lookAtRevision(eye, target, tempUp) ==
    Value({transpose4(mat4(vec4From3(right, I(0)),
                           vec4From3(cross(forward, right), I(0)),
                           vec4From3(forward, I(0)),
                           vec4From3(eye, I(1)))) :
               forward \in {neg3(normalize(sub3(target, eye)))},
               right \in {cross(tempUp, neg3(normalize(sub3(target, eye))))}})

\* fields of view: quarter turns around zero, and angles around epsilon
Fovys ==
    {QuarterTurns(k) : k \in -1 .. 1}
    \cup {SmallAngle(e) : e \in {Epsilon, Mul(Epsilon, Rat(1, 2)), Mul(Epsilon, I(2))}}

AspectRatios ==
    {I(0), I(-1), Epsilon, Mul(Epsilon, Rat(1, 2)), Mul(Epsilon, I(2)), I(1), Rat(16, 9)}

NearPlanes == {I(1), Rat(1, 8), I(0)}

FarPlanes ==
    {I(1), Add(I(1), Epsilon), Add(I(1), Mul(Epsilon, Rat(1, 2))),
     Add(I(1), Mul(Epsilon, I(2))), I(16), Rat(1, 8), I(0)}

\* a small field of view goes with an aspect ratio that is not small, so that
\* the entries of the matrix stay within the integers of the model
PerspectiveInputs ==
    {[kind |-> "perspective", fovy |-> f, aspectRatio |-> a, zNear |-> n, zFar |-> z] :
        f \in {QuarterTurns(k) : k \in -1 .. 1}, a \in AspectRatios,
        n \in NearPlanes, z \in FarPlanes}
    \cup {[kind |-> "perspective", fovy |-> f, aspectRatio |-> a, zNear |-> n, zFar |-> z] :
        f \in Fovys, a \in {I(0), I(-1), I(1), Rat(16, 9)},
        n \in NearPlanes, z \in FarPlanes}

\* target - eye: along the axes, oblique, and zero
Directions ==
    Axes \cup {vec3(I(3), I(4), I(0)), vec3(I(0), I(-3), I(4)), vec3(I(1), I(1), I(0)),
               vec3(I(1), I(0), I(-1)), vec3(I(0), I(0), I(0))}

\* the inputs of lookAt whose lengths are values of the model
LookAtInputs ==
    {[kind |-> "lookAt", eye |-> e, target |-> add3(e, d), tempUp |-> u] :
        e \in Vecs3,
        d \in {dd \in Directions : HasSqrt(length2(dd))},
        u \in Axes}

LookAtLengthsExist(a) ==
    HasSqrt(length2(cross(normalize(sub3(a.target, a.eye)), a.tempUp)))

ViewInputs == PerspectiveInputs \cup {a \in LookAtInputs : LookAtLengthsExist(a)}

CallLookAt ==
    /\ args.kind = "lookAt"
    /\ Returned("lookAt", lookAt(args.eye, args.target, args.tempUp))
    /\ UNCHANGED <<cfg, hookCalled, box, pts, rnd>>

CallLookAtRevision ==
    /\ args.kind = "lookAt"
    /\ Returned("lookAtRevision", lookAtRevision(args.eye, args.target, args.tempUp))
    /\ UNCHANGED <<cfg, hookCalled, box, pts, rnd>>

\* the asserts in their order, then the matrix
PerspectiveCall(name, m) ==
    /\ args.kind = "perspective"
    /\ IF \A i \in 1 .. 3 :
              AssertPasses(cfg, PerspectiveAsserts(args.fovy, args.aspectRatio,
                                                   args.zNear, args.zFar)[i])
       THEN Returned(name, m)
       ELSE Aborted(name, <<>>)
    /\ UNCHANGED <<cfg, hookCalled, box, pts, rnd>>

CallPerspectiveVulkan ==
    PerspectiveCall("perspectiveVulkan",
                    perspectiveProjectionToVulkanClipSpace(args.fovy, args.aspectRatio,
                                                           args.zNear, args.zFar))

CallPerspectiveOpenGL ==
    PerspectiveCall("perspectiveOpenGL",
                    perspectiveProjectionToOpenGLClipSpace(args.fovy, args.aspectRatio,
                                                           args.zNear, args.zFar))

InitView == cfg \in DefaultCfgs /\ args \in ViewInputs /\ Idle

NextView ==
    \/ CallLookAt
    \/ CallLookAtRevision
    \/ CallPerspectiveVulkan
    \/ CallPerspectiveOpenGL

SpecView == InitView /\ [][NextView]_vars

----------------------------------------------------------------------------
(* aabb3: an axis-aligned box and the points it was expanded with *)

\* a minimum and a maximum that return their first argument
min3OfFirst(lhs, rhs) == lhs
max3OfFirst(lhs, rhs) == lhs

\* min and max of two tvec3
min3(lhs, rhs) == vec3(stdmin(lhs.x, rhs.x), stdmin(lhs.y, rhs.y), stdmin(lhs.z, rhs.z))
max3(lhs, rhs) == vec3(stdmax(lhs.x, rhs.x), stdmax(lhs.y, rhs.y), stdmax(lhs.z, rhs.z))

\* the tvec3<bool> operations
lessThanEqual(lhs, rhs) ==
    vec3(LessEq(lhs.x, rhs.x), LessEq(lhs.y, rhs.y), LessEq(lhs.z, rhs.z))
greaterThanEqual(lhs, rhs) ==
    vec3(GreaterEq(lhs.x, rhs.x), GreaterEq(lhs.y, rhs.y), GreaterEq(lhs.z, rhs.z))
and3(lhs, rhs) == vec3(lhs.x /\ rhs.x, lhs.y /\ rhs.y, lhs.z /\ rhs.z)
all(v) == v.x /\ v.y /\ v.z

\* an expansion that takes the larger bound for min and the smaller for max
expandWithPointSwapped(b, point) ==
    [min |-> max3(point, b.min), max |-> min3(point, b.max)]

\* aabb3::expandWithPoint: the box after the call
expandWithPoint(b, point) ==
    [min |-> min3(point, b.min), max |-> max3(point, b.max)]

\* a containment test that leaves the bounds out
containsExclusive(b, point) ==
    all(and3(vec3(Greater(point.x, b.min.x), Greater(point.y, b.min.y),
                  Greater(point.z, b.min.z)),
             vec3(Less(point.x, b.max.x), Less(point.y, b.max.y), Less(point.z, b.max.z))))

\* aabb3::contains
contains(b, point) ==
    all(and3(greaterThanEqual(point, b.min), lessThanEqual(point, b.max)))

\* the points of the usage scenario, and points with NaN and infinite components
Points ==
    {vec3(I(1), I(2), I(3)), vec3(I(-1), I(5), I(0)), vec3(I(0), I(3), I(1)),
     vec3(I(2), I(2), I(2)), vec3(NaN, I(0), I(0)), vec3(I(0), NaN, I(4)),
     vec3(PosInf, I(0), NegInf)}

CallExpandWithPoint ==
    \E point \in Points :
        /\ Len(pts) < MaxPoints
        /\ box' = expandWithPoint(box, point)
        /\ pts' = Append(pts, point)
        /\ op' = "expandWithPoint"
        /\ args' = [kind |-> "aabb", point |-> point]
        /\ result' = box'
        /\ outcome' = "returned"
        /\ UNCHANGED <<cfg, hookCalled, rnd>>

CallContains ==
    \E point \in Points :
        /\ op' = "contains"
        /\ args' = [kind |-> "aabb", point |-> point]
        /\ result' = contains(box, point)
        /\ outcome' = "returned"
        /\ UNCHANGED <<cfg, hookCalled, box, pts, rnd>>

InitAabb ==
    /\ cfg = [asserts |-> TRUE, hook |-> "default"]
    /\ args = [kind |-> "aabb"]
    /\ Idle

NextAabb ==
    \/ CallExpandWithPoint
    \/ CallContains

SpecAabb == InitAabb /\ [][NextAabb]_vars

----------------------------------------------------------------------------
(* Claims about rotating a vector by a quaternion *)

\* the vector part of q * (v, 0) * conjugate(q), by the Hamilton product
HamiltonSandwich(q, v) ==
    QuatTimesQuat(QuatTimesQuat(q, tquat(v, I(0))), tquat(neg3(q.vec), q.w)).vec

\* t = 2 * cross(q.vec, v), v + q.w * t + cross(q.vec, t)
DoubleCross(q, v) ==
    LET t == scale3(cross(q.vec, v), I(2))
    IN  add3(add3(v, scale3(t, q.w)), cross(q.vec, t))

\* C1: for every unit quaternion q and every 3-vector v, q * v is the vector
\* part of q * (v, 0) * conjugate(q), computed as the double cross product
\* with t = 2 * cross(q.vec, v).
C1_QuatTimesVecIsSandwich ==
    (op = "quatTimesVec" /\ IsUnit(args.q)) =>
        /\ result = HamiltonSandwich(args.q, args.v)
        /\ result = DoubleCross(args.q, args.v)

\* C2: the quarter turn about globalUp takes globalRight to globalForward, by
\* q * v and by rotateVector(q, v), within 1e-6 (the two asserts of the usage
\* program hold), and rotateVector(q, v) is q * v for all q, v.
C2_QuarterTurnRightToForward ==
    /\ op = "quatTest" =>
           Less(result.diff1, TestTolerance) /\ Less(result.diff2, TestTolerance)
    /\ (/\ op \in {"quatTimesVec", "rotateVector"}
        /\ args.q = axisAngle(globalUp, HALF_PI)
        /\ args.v = globalRight) => result = globalForward
    /\ op = "rotateVector" => result = QuatTimesVec(args.q, args.v)

\* C3: for every unit quaternion q and 3-vector v, q * v is the first three
\* components of quatToMatrix(q) * vec4(v, 0).
C3_QuatTimesVecIsMatrixTimesVec ==
    (op = "quatTimesVec" /\ IsUnit(args.q)) =>
        result = xyz(Mat4TimesVec4(quatToMatrix(args.q), vec4From3(args.v, I(0))))

----------------------------------------------------------------------------
(* Claims about determinant and inverse *)

\* the determinant of the 3x3 array a (a[i][j]), by the rule of Sarrus
Sarrus(a) ==
    Sub(Add(Add(Mul(Mul(a[1][1], a[2][2]), a[3][3]), Mul(Mul(a[2][1], a[3][2]), a[1][3])),
            Mul(Mul(a[3][1], a[1][2]), a[2][3])),
        Add(Add(Mul(Mul(a[3][1], a[2][2]), a[1][3]), Mul(Mul(a[2][1], a[1][2]), a[3][3])),
            Mul(Mul(a[1][1], a[3][2]), a[2][3])))

Columns3(m) == << <<m.x.x, m.x.y, m.x.z>>, <<m.y.x, m.y.y, m.y.z>>, <<m.z.x, m.z.y, m.z.z>> >>
Columns4(m) ==
    << <<m.x.x, m.x.y, m.x.z, m.x.w>>, <<m.y.x, m.y.y, m.y.z, m.y.w>>,
       <<m.z.x, m.z.y, m.z.z, m.z.w>>, <<m.w.x, m.w.y, m.w.z, m.w.w>> >>

\* the reference determinants: Sarrus for 3x3, and for 4x4 the expansion
\* along the first row by 3x3 minors
ReferenceDet3(m) == Sarrus(Columns3(m))

Minor4(e, c) ==
    LET cols == SelectSeq(<<1, 2, 3, 4>>, LAMBDA k : k # c)
    IN  [i \in 1 .. 3 |-> [j \in 1 .. 3 |-> e[cols[i]][j + 1]]]

ReferenceDet4Of(e) ==
    Add(Sub(Mul(e[1][1], Sarrus(Minor4(e, 1))), Mul(e[2][1], Sarrus(Minor4(e, 2)))),
        Sub(Mul(e[3][1], Sarrus(Minor4(e, 3))), Mul(e[4][1], Sarrus(Minor4(e, 4)))))

ReferenceDet4(m) == Value({ReferenceDet4Of(e) : e \in {Columns4(m)}})

ReferenceDet ==
    IF args.kind = "mat3" THEN ReferenceDet3(args.m) ELSE ReferenceDet4(args.m)

NearZero(det) == Less(Abs(det), Epsilon)

\* C4: for every 3x3 matrix m whose determinant is not near zero, inverse(m)
\* is returned and m * inverse(m) is the 3x3 identity, and determinant(m) is
\* the reference 3x3 determinant; so for the columns (1,3,2),(2,2,1),(3,1,3).
C4_InverseTimesMatrixIsIdentity ==
    /\ (op = "inverse3" /\ ~NearZero(ReferenceDet3(args.m))) =>
           /\ outcome = "returned"
           /\ Mat3TimesMat3(args.m, result) = mat3Diag(I(1))
    /\ op = "determinant" => result = ReferenceDet3(args.m)

C4_TestMatrixInverted ==
    op = "inverse3" /\ args.m = TestMat3 /\ outcome = "returned"

\* C5: inverse (3x3 and 4x4) invokes the failure hook exactly when
\* |det| < epsilon: for every singular input, and for no input whose
\* |det| >= epsilon.
C5_HookExactlyWhenDetBelowEpsilon ==
    op \in {"inverse3", "inverse4"} => (hookCalled <=> NearZero(ReferenceDet))

C5_SingularExampleHooked ==
    op = "inverse4" /\ args.m = SingularMat4 /\ hookCalled

\* C6: inverse called on a matrix whose determinant is zero never returns a
\* matrix to its caller, whatever the failure hook is.
C6_SingularInverseNeverReturns ==
    (op \in {"inverse3", "inverse4"} /\ ReferenceDet = I(0)) => outcome # "returned"

----------------------------------------------------------------------------
(* Claims about the view and projection matrices *)

\* C7: with asserts enabled, both perspective projections stop at a
\* MOOSLIB_ASSERT and produce no matrix whenever the aspect ratio does not
\* exceed epsilon (zero and negative ratios included), whenever
\* |zFar - zNear| does not exceed epsilon, and whenever fovy does not exceed
\* epsilon.
C7_PerspectiveRejectsBadParameters ==
    (/\ op \in {"perspectiveVulkan", "perspectiveOpenGL"}
     /\ cfg.asserts
     /\ \/ ~Greater(args.aspectRatio, Epsilon)
        \/ ~Greater(Abs(Sub(args.zFar, args.zNear)), Epsilon)
        \/ ~AngleExceedsEpsilon(args.fovy)) => outcome = "aborted"

\* eye # target and the up hint is not along target - eye
LookAtDefined ==
    /\ args.eye # args.target
    /\ cross(sub3(args.target, args.eye), args.tempUp) # vec3(I(0), I(0), I(0))

\* C8: the matrix lookAt of transform.h returns has the translation
\* (-dot(right, eye), -dot(up, eye), dot(forward, eye)) in its last column, and
\* applied to (eye, 1) it gives (0, 0, 0, 1).
C8_LookAtTakesEyeToOrigin ==
    (op = "lookAt" /\ LookAtDefined) =>
        /\ Mat4TimesVec4(result, vec4From3(args.eye, I(1))) = vec4(I(0), I(0), I(0), I(1))
        /\ result.w = vec4(Neg(dot3(vec3(result.x.x, result.y.x, result.z.x), args.eye)),
                           Neg(dot3(vec3(result.x.y, result.y.y, result.z.y), args.eye)),
                           Neg(dot3(vec3(result.x.z, result.y.z, result.z.z), args.eye)),
                           I(1))

\* C9: for eye # target and an up hint perpendicular to target - eye, lookAt
\* (either revision) applied to (target - eye, 0) gives (0, 0, -|target - eye|, 0),
\* and the rows right, up, -forward of the matrix are mutually orthogonal.
C9_LookAtTakesDirectionToMinusZ ==
    (/\ op \in {"lookAt", "lookAtRevision"}
     /\ LookAtDefined
     /\ dot3(args.tempUp, sub3(args.target, args.eye)) = I(0)) =>
        LET d == sub3(args.target, args.eye)
            row1 == vec3(result.x.x, result.y.x, result.z.x)
            row2 == vec3(result.x.y, result.y.y, result.z.y)
            row3 == vec3(result.x.z, result.y.z, result.z.z)
        IN  /\ Mat4TimesVec4(result, vec4From3(d, I(0)))
                   = vec4(I(0), I(0), Neg(length(d)), I(0))
            /\ dot3(row1, row2) = I(0)
            /\ dot3(row1, row3) = I(0)
            /\ dot3(row2, row3) = I(0)

----------------------------------------------------------------------------
(* Claims about aabb3 *)

AxisNames == {"x", "y", "z"}

\* C10 as stated: after any non-empty sequence of expandWithPoint calls on a
\* default-constructed aabb3, min.i <= max.i holds for every component i.
C10_MinAtMostMax ==
    pts # <<>> => \A i \in AxisNames : LessEq(box.min[i], box.max[i])

\* C10: after any non-empty sequence of expandWithPoint calls on a
\* default-constructed aabb3, min.i <= max.i holds for every component i in
\* which the point of the last call is not NaN; in a component in which it is
\* NaN, min.i and max.i are both NaN.
C10_MinAtMostMaxUnlessLastIsNaN ==
    pts # <<>> =>
        \A i \in AxisNames :
            IF IsNaN(pts[Len(pts)][i])
            THEN IsNaN(box.min[i]) /\ IsNaN(box.max[i])
            ELSE LessEq(box.min[i], box.max[i])

C10_ExpandedAfterNaN ==
    /\ Len(pts) = 2
    /\ IsNaN(pts[1].x)
    /\ ~IsNaN(pts[2].x)
    /\ box.min.x = pts[2].x

\* m is the least (greatest) of the i components of the points P
IsMinOf(m, P, i) ==
    /\ \E k \in 1 .. Len(P) : m = P[k][i]
    /\ \A k \in 1 .. Len(P) : LessEq(m, P[k][i])
IsMaxOf(m, P, i) ==
    /\ \E k \in 1 .. Len(P) : m = P[k][i]
    /\ \A k \in 1 .. Len(P) : LessEq(P[k][i], m)

NoNaNIn(P, i) == \A k \in 1 .. Len(P) : ~IsNaN(P[k][i])

\* contains(p) is true exactly when min.i <= p.i <= max.i for the three i
ContainsIsInclusiveRange ==
    op = "contains" =>
        (result <=> \A i \in AxisNames :
                        LessEq(box.min[i], args.point[i]) /\ LessEq(args.point[i], box.max[i]))

\* after (1,2,3) and (-1,5,0): min = (-1,2,0), max = (1,5,3), (0,3,1) is
\* contained and (2,2,2) is not
ScenarioBox ==
    pts = <<vec3(I(1), I(2), I(3)), vec3(I(-1), I(5), I(0))>> =>
        /\ box.min = vec3(I(-1), I(2), I(0))
        /\ box.max = vec3(I(1), I(5), I(3))
        /\ (op = "contains" /\ args.point = vec3(I(0), I(3), I(1))) => result
        /\ (op = "contains" /\ args.point = vec3(I(2), I(2), I(2))) => ~result

\* C11 as stated: after expanding a default-constructed aabb3 with the points
\* of a non-empty sequence P, min is the componentwise minimum of P and max the
\* componentwise maximum, and contains(p) is true exactly when
\* min.i <= p.i <= max.i for the three components.
C11_BoxIsMinAndMaxOfPoints ==
    /\ pts # <<>> =>
           \A i \in AxisNames : IsMinOf(box.min[i], pts, i) /\ IsMaxOf(box.max[i], pts, i)
    /\ ContainsIsInclusiveRange
    /\ ScenarioBox

\* C11: the same, for the components in which no point of P is NaN.
C11_BoxIsMinAndMaxOfPointsWithoutNaN ==
    /\ pts # <<>> =>
           \A i \in AxisNames :
               NoNaNIn(pts, i) =>
                   IsMinOf(box.min[i], pts, i) /\ IsMaxOf(box.max[i], pts, i)
    /\ ContainsIsInclusiveRange
    /\ ScenarioBox

C11_ScenarioContains ==
    /\ pts = <<vec3(I(1), I(2), I(3)), vec3(I(-1), I(5), I(0))>>
    /\ op = "contains"
    /\ args.point = vec3(I(0), I(3), I(1))
    /\ result = TRUE

----------------------------------------------------------------------------
(* Products of matrices and vectors *)

\* what a tmat3<T> can be constructed from: tmat3(T d), tmat3(tvec3, tvec3, tvec3)
\* and the implicit copy from a tmat3
tmat3Constructors == {<<"T">>, <<"tvec3", "tvec3", "tvec3">>, <<"tmat3">>}

\* tmat3<T> trans = transpose(*this) in tmat4::operator*(const tvec4&):
\* transpose(*this) is a tmat4<T>, and the declaration needs a tmat3 made of it
Mat4TimesVec4WellFormed == <<"tmat4">> \in tmat3Constructors

\* a call the translation unit of which is rejected: there is no program to run
IllFormed(name) ==
    /\ op = "none"
    /\ op' = name
    /\ result' = <<>>
    /\ outcome' = "illFormed"
    /\ UNCHANGED args

Vecs4 ==
    {vec4(I(1), I(0), I(0), I(0)), vec4(I(0), I(0), I(0), I(1)),
     vec4(I(1), I(2), I(3), I(4)), vec4(I(-1), I(0), I(2), I(1)),
     vec4(Rat(1, 2), I(-3), I(0), I(0))}
    \cup {vec4(I(k), I(-k), I(1), I(0)) : k \in 1 .. VecRange}

\* factors of the products: a shear per step of the range, a quarter turn, a
\* scaling with a fraction, a singular matrix and the matrix of the usage program
Factors3 ==
    {mat3(vec3(I(1), I(0), I(0)), vec3(I(k), I(1), I(0)), vec3(I(0), I(-k), I(1))) :
        k \in 1 .. MatRange}
    \cup {mat3(vec3(I(0), I(1), I(0)), vec3(I(-1), I(0), I(0)), vec3(I(0), I(0), I(1))),
          mat3(vec3(Rat(1, 2), I(0), I(0)), vec3(I(0), I(3), I(0)), vec3(I(0), I(0), I(-1))),
          SingularMat3, TestMat3}

Factors4 ==
    {mat4(vec4(I(1), I(0), I(0), I(0)), vec4(I(k), I(1), I(0), I(0)),
          vec4(I(0), I(-k), I(1), I(0)), vec4(I(2), I(0), I(k), I(1))) : k \in 1 .. MatRange}
    \cup {mat4(vec4(I(0), I(1), I(0), I(0)), vec4(I(-1), I(0), I(0), I(0)),
               vec4(I(0), I(0), I(1), I(0)), vec4(I(0), I(0), Rat(1, 2), I(1))),
          SingularMat4, TestMat4}

\* the translation written into the last row, where the last column belongs
translateInLastRow(v) ==
    mat4(vec4(I(1), I(0), I(0), v.x), vec4(I(0), I(1), I(0), v.y),
         vec4(I(0), I(0), I(1), v.z), vec4(I(0), I(0), I(0), I(1)))

\* translate(const tvec3&): tmat4 m(1); m.w = { v, 1 }
translate(v) == [mat4Diag(I(1)) EXCEPT !.w = vec4From3(v, I(1))]

\* operands of cross: the integer vectors of the range, one with a fraction
\* and one with irrational components
CrossVecs ==
    Vecs3 \cup {vec3(Rat(1, 2), I(-3), I(2)), vec3(SqrtTwoHalf, I(0), SqrtTwoHalf)}

ProductInputs ==
    {[kind |-> "mat4vec4", m |-> m, v |-> v] : m \in Mats4, v \in Vecs4}
    \cup {[kind |-> "mat3vec3", m |-> m, v |-> v] : m \in Factors3, v \in Vecs3}
    \cup {[kind |-> "mat3", m |-> m] : m \in Mats3}
    \cup {[kind |-> "vec3vec3", a |-> a, b |-> b] : a \in CrossVecs, b \in CrossVecs}
    \cup {[kind |-> "mat4", m |-> m] : m \in Mats4}
    \cup {[kind |-> "mat3mat3", a |-> a, b |-> b, c |-> c] :
              a \in Factors3, b \in Factors3, c \in Factors3}
    \cup {[kind |-> "mat4mat4", a |-> a, b |-> b, c |-> c] :
              a \in Factors4, b \in Factors4, c \in Factors4}

\* transpose(const tmat3&)
CallTranspose3 ==
    /\ args.kind = "mat3"
    /\ Returned("transpose3", transpose3(args.m))
    /\ UNCHANGED <<cfg, hookCalled, box, pts, rnd>>

\* transpose(const tmat4&)
CallTranspose4 ==
    /\ args.kind = "mat4"
    /\ Returned("transpose4", transpose4(args.m))
    /\ UNCHANGED <<cfg, hookCalled, box, pts, rnd>>

\* cross(const tvec3&, const tvec3&)
CallCross ==
    /\ args.kind = "vec3vec3"
    /\ Returned("cross", cross(args.a, args.b))
    /\ UNCHANGED <<cfg, hookCalled, box, pts, rnd>>

\* translate(const tvec3&), of the first of the two vectors drawn
CallTranslate ==
    /\ args.kind = "vec3vec3"
    /\ Returned("translate", translate(args.a))
    /\ UNCHANGED <<cfg, hookCalled, box, pts, rnd>>

\* tmat3::operator*(const tvec3&)
CallMat3TimesVec3 ==
    /\ args.kind = "mat3vec3"
    /\ Returned("mat3TimesVec3", Mat3TimesVec3(args.m, args.v))
    /\ UNCHANGED <<cfg, hookCalled, box, pts, rnd>>

\* tmat3::operator*(const tmat3&): a * b, of the a, b, c drawn
CallMat3TimesMat3 ==
    /\ args.kind = "mat3mat3"
    /\ Returned("mat3TimesMat3", Mat3TimesMat3(args.a, args.b))
    /\ UNCHANGED <<cfg, hookCalled, box, pts, rnd>>

\* tmat4::operator*(const tmat4&): a * b, of the a, b, c drawn
CallMat4TimesMat4 ==
    /\ args.kind = "mat4mat4"
    /\ Returned("mat4TimesMat4", Mat4TimesMat4(args.a, args.b))
    /\ UNCHANGED <<cfg, hookCalled, box, pts, rnd>>

\* tmat4::operator*(const tvec4&)
CallMat4TimesVec4 ==
    /\ args.kind = "mat4vec4"
    /\ IF Mat4TimesVec4WellFormed
       THEN Returned("mat4TimesVec4", Mat4TimesVec4(args.m, args.v))
       ELSE IllFormed("mat4TimesVec4")
    /\ UNCHANGED <<cfg, hookCalled, box, pts, rnd>>

InitProduct == cfg \in DefaultCfgs /\ args \in ProductInputs /\ Idle

NextProduct ==
    \/ CallMat4TimesVec4
    \/ CallMat3TimesVec3
    \/ CallMat3TimesMat3
    \/ CallMat4TimesMat4
    \/ CallTranspose3
    \/ CallTranspose4
    \/ CallCross
    \/ CallTranslate

SpecProduct == InitProduct /\ [][NextProduct]_vars

----------------------------------------------------------------------------
(* Claim C12 *)

AxisNames4 == {"x", "y", "z", "w"}

\* row i of a 4x4 matrix stored as columns
Row4(m, i) == vec4(m.x[i], m.y[i], m.z[i], m.w[i])

\* C12: for every tmat4 A and tvec4 v, A * v is a tvec4 whose component i is
\* the dot product of row i of A with v, for all four rows.
C12_Mat4TimesVec4IsRowsDotVector ==
    op = "mat4TimesVec4" =>
        /\ outcome = "returned"
        /\ \A i \in AxisNames4 : result[i] = dot4(Row4(args.m, i), args.v)

----------------------------------------------------------------------------
(* Claim C13 *)

\* the matrix m applied to the column vector v: its rows dotted with v
Apply4(m, v) ==
    vec4(dot4(Row4(m, "x"), v), dot4(Row4(m, "y"), v), dot4(Row4(m, "z"), v),
         dot4(Row4(m, "w"), v))

ColumnsAreImages3(ab, a, b) ==
    \A j \in AxisNames : ab[j] = Mat3TimesVec3(a, b[j])

ColumnsAreImages4(ab, a, b) ==
    \A j \in AxisNames4 : ab[j] = Apply4(a, b[j])

\* C13: column j of A*B is A applied to column j of B, and (A*B)*C = A*(B*C),
\* for 3x3 and for 4x4 matrices.
C13_ProductColumnsAndAssociativity ==
    /\ op = "mat3TimesMat3" =>
        /\ ColumnsAreImages3(result, args.a, args.b)
        /\ Mat3TimesMat3(result, args.c)
               = Mat3TimesMat3(args.a, Mat3TimesMat3(args.b, args.c))
    /\ op = "mat4TimesMat4" =>
        /\ ColumnsAreImages4(result, args.a, args.b)
        /\ Mat4TimesMat4(result, args.c)
               = Mat4TimesMat4(args.a, Mat4TimesMat4(args.b, args.c))

\* C13, the A and B that do not commute: a 3x3 product a * b has been taken
\* that differs from b * a
C13_ProductDoesNotCommute ==
    /\ op = "mat3TimesMat3"
    /\ result # Mat3TimesMat3(args.b, args.a)

----------------------------------------------------------------------------
(* Claim C14 *)

\* element (row i, column j) of a matrix stored as columns
Element(m, i, j) == m[j][i]

\* C14: transpose(transpose(m)) == m, and element (row i, column j) of
\* transpose(m) is element (row j, column i) of m, for 3x3 and 4x4 matrices.
C14_TransposeIsInvolutionSwappingIndices ==
    /\ op = "transpose3" =>
        /\ transpose3(result) = args.m
        /\ \A i \in AxisNames, j \in AxisNames :
               Element(result, i, j) = Element(args.m, j, i)
    /\ op = "transpose4" =>
        /\ transpose4(result) = args.m
        /\ \A i \in AxisNames4, j \in AxisNames4 :
               Element(result, i, j) = Element(args.m, j, i)

\* C14: a matrix that is not symmetric has been transposed
C14_TransposedAsymmetric ==
    /\ op = "transpose3"
    /\ args.m = TestMat3
    /\ result # args.m
    /\ Element(result, "x", "y") = I(3)

----------------------------------------------------------------------------
(* Claim C15 *)

\* C15: cross(a, b) == -cross(b, a), cross(a, a) == 0, cross(a, b) is
\* orthogonal to a and to b, and cross(globalX, globalY) == globalZ.
C15_CrossIsAntisymmetricOrthogonalRightHanded ==
    op = "cross" =>
        /\ result = neg3(cross(args.b, args.a))
        /\ cross(args.a, args.a) = vec3(I(0), I(0), I(0))
        /\ dot3(args.a, result) = I(0)
        /\ dot3(args.b, result) = I(0)
        /\ (args.a = globalX /\ args.b = globalY) => result = globalZ

\* C15: the product of globalX and globalY has been taken
C15_CrossOfXAndY ==
    /\ op = "cross"
    /\ args.a = globalX
    /\ args.b = globalY
    /\ result = globalZ

----------------------------------------------------------------------------
(* Quaternions: conversion to a matrix and back, and composition *)

\* the unit quaternions of Quats and two with a negative scalar part
UnitQuats ==
    {q \in Quats : IsUnit(q)}
    \cup {tquat(vec3(Rat(-1, 2), Rat(-1, 2), Rat(-1, 2)), Rat(-1, 2)),
          tquat(vec3(I(0), Rat(-3, 5), I(0)), Rat(-4, 5))}

\* factors of the compositions: the default quaternion, turns about the axes,
\* unit quaternions with fractions, and two that are not unit
ComposeQuats ==
    {tquatDefault, axisAngle(globalX, 1), axisAngle(globalY, 2),
     tquat(vec3(Rat(1, 2), Rat(1, 2), Rat(1, 2)), Rat(1, 2)),
     tquat(vec3(Rat(1, 3), Rat(2, 3), I(0)), Rat(-2, 3)),
     tquat(vec3(I(1), I(1), I(0)), I(1)), tquat(vec3(I(0), I(0), I(0)), I(2))}
    \cup {axisAngle(globalZ, k) : k \in MaxQuarterTurns - 1 .. MaxQuarterTurns}

RotationInputs ==
    {[kind |-> "quat", q |-> q, v |-> vec3(I(0), I(0), I(0))] : q \in UnitQuats}
    \cup {[kind |-> "quats", p |-> p, q |-> q, r |-> r] :
              p \in ComposeQuats, q \in ComposeQuats, r \in ComposeQuats}

\* tquat::operator*(const tquat&): p * q, of the p, q, r drawn
CallQuatTimesQuat ==
    /\ args.kind = "quats"
    /\ Returned("quatTimesQuat", QuatTimesQuat(args.p, args.q))
    /\ UNCHANGED <<cfg, hookCalled, box, pts, rnd>>

\* quatFromMatrix(const tmat4&), of the matrix quatToMatrix handed back
CallQuatFromMatrix ==
    /\ op = "quatToMatrix"
    /\ outcome = "returned"
    /\ op' = "quatFromMatrix"
    /\ result' = quatFromMatrix(result)
    /\ UNCHANGED <<cfg, args, outcome, hookCalled, box, pts, rnd>>

InitRotation == cfg \in DefaultCfgs /\ args \in RotationInputs /\ Idle

NextRotation ==
    \/ CallQuatToMatrix
    \/ CallQuatFromMatrix
    \/ CallQuatTimesQuat

SpecRotation == InitRotation /\ [][NextRotation]_vars

----------------------------------------------------------------------------
(* Claim C16 *)

negQuat(q) == tquat(neg3(q.vec), Neg(q.w))

\* the branch quatFromMatrix takes on the matrix of q
BranchOf(q) == quatFromMatrixBranch(quatToMatrix(q)).branch

\* C16: for every unit quaternion q, quatFromMatrix(quatToMatrix(q)) is q or
\* -q, in each of the four branches of quatFromMatrix.
C16_QuatRoundTrip ==
    \A k \in 1 .. 4 :
        (op = "quatFromMatrix" /\ IsUnit(args.q) /\ BranchOf(args.q) = k) =>
            result \in {args.q, negQuat(args.q)}

\* C16: a round trip through the first branch that came back as -q
C16_RoundTripNegated ==
    /\ op = "quatFromMatrix"
    /\ BranchOf(args.q) = 1
    /\ result = negQuat(args.q)
    /\ result # args.q

----------------------------------------------------------------------------
(* Claim C17 *)

Sum4(a, b, c, d) == Add(Add(Add(a, b), c), d)

\* the Hamilton product of p = p.w + p.x i + p.y j + p.z k and q, by components
Hamilton(p, q) ==
    tquat(vec3(Sum4(Mul(p.w, q.vec.x), Mul(p.vec.x, q.w),
                    Mul(p.vec.y, q.vec.z), Neg(Mul(p.vec.z, q.vec.y))),
               Sum4(Mul(p.w, q.vec.y), Mul(p.vec.y, q.w),
                    Mul(p.vec.z, q.vec.x), Neg(Mul(p.vec.x, q.vec.z))),
               Sum4(Mul(p.w, q.vec.z), Mul(p.vec.z, q.w),
                    Mul(p.vec.x, q.vec.y), Neg(Mul(p.vec.y, q.vec.x)))),
          Sum4(Mul(p.w, q.w), Neg(Mul(p.vec.x, q.vec.x)),
               Neg(Mul(p.vec.y, q.vec.y)), Neg(Mul(p.vec.z, q.vec.z))))

\* C17: p * q is the Hamilton product; (p*q)*r == p*(q*r); the
\* default-constructed quaternion is an identity on both sides.
C17_QuatProductIsHamilton ==
    op = "quatTimesQuat" =>
        /\ result = Hamilton(args.p, args.q)
        /\ QuatTimesQuat(result, args.r)
               = QuatTimesQuat(args.p, QuatTimesQuat(args.q, args.r))
        /\ args.p = tquatDefault => result = args.q
        /\ args.q = tquatDefault => result = args.p

\* C17: a composition p * q has been taken that differs from q * p
C17_QuatProductDoesNotCommute ==
    /\ op = "quatTimesQuat"
    /\ result # QuatTimesQuat(args.q, args.p)

----------------------------------------------------------------------------
(* The inverse of an inverse *)

\* matrices with integer columns, scalings, a matrix with fractions, and the
\* matrices of the usage programs
TwiceMats3 ==
    {m \in Mats3 : m.z \notin TinyCols3}
    \cup {mat3Diag(I(4)),
          mat3(vec3(Rat(1, 2), I(0), I(0)), vec3(I(1), I(3), I(0)), vec3(I(0), I(-1), Rat(2, 3)))}

TwiceMats4 ==
    {m \in Mats4 : m.w.w \notin {Epsilon, Mul(Epsilon, Rat(1, 2))}}
    \cup {mat4Diag(Rat(1, 2))}

TwiceInputs ==
    {[kind |-> "mat3", m |-> m] : m \in TwiceMats3}
    \cup {[kind |-> "mat4", m |-> m] : m \in TwiceMats4}

\* inverse(const tmat3&), of the matrix inverse handed back
CallInverse3OfInverse ==
    LET bad == BadDeterminant(determinant(result))
    IN  /\ op = "inverse3"
        /\ outcome = "returned"
        /\ op' = "inverse3OfInverse"
        /\ IF bad /\ ~HookReturns(cfg)
           THEN result' = <<>> /\ outcome' = "aborted"
           ELSE result' = inverse3(result) /\ outcome' = "returned"
        /\ hookCalled' = bad
        /\ UNCHANGED <<cfg, args, box, pts, rnd>>

\* inverse(const tmat4&), of the matrix inverse handed back
CallInverse4OfInverse ==
    LET bad == BadDeterminant(inverse4det(result))
    IN  /\ op = "inverse4"
        /\ outcome = "returned"
        /\ op' = "inverse4OfInverse"
        /\ IF bad /\ ~HookReturns(cfg)
           THEN result' = <<>> /\ outcome' = "aborted"
           ELSE result' = inverse4(result) /\ outcome' = "returned"
        /\ hookCalled' = bad
        /\ UNCHANGED <<cfg, args, box, pts, rnd>>

InitInverseTwice == cfg \in Cfgs /\ args \in TwiceInputs /\ Idle

NextInverseTwice ==
    \/ CallInverse3
    \/ CallInverse4
    \/ CallInverse3OfInverse
    \/ CallInverse4OfInverse

SpecInverseTwice == InitInverseTwice /\ [][NextInverseTwice]_vars

----------------------------------------------------------------------------
(* Claim C18 *)

\* the determinants of m and of its inverse are both not below epsilon
TwiceInvertible3(m) ==
    /\ ~NearZero(ReferenceDet3(m))
    /\ \E inv \in {inverse3(m)} : ~NearZero(ReferenceDet3(inv))

TwiceInvertible4(m) ==
    /\ ~NearZero(ReferenceDet4(m))
    /\ \E inv \in {inverse4(m)} : ~NearZero(ReferenceDet4(inv))

\* C18: for every 3x3 or 4x4 matrix m with |det| not below epsilon for m and
\* for inverse(m), inverse(inverse(m)) is returned and equals m.
C18_InverseOfInverseIsMatrix ==
    /\ (op = "inverse3OfInverse" /\ TwiceInvertible3(args.m)) =>
           outcome = "returned" /\ result = args.m
    /\ (op = "inverse4OfInverse" /\ TwiceInvertible4(args.m)) =>
           outcome = "returned" /\ result = args.m

\* C18: the inverse of the inverse of the 4x4 test matrix has been taken
C18_TestMatrixInvertedTwice ==
    /\ op = "inverse4OfInverse"
    /\ args.m = TestMat4
    /\ TwiceInvertible4(args.m)
    /\ result = TestMat4

----------------------------------------------------------------------------
(* Claim C19 *)

\* C19: translate(v) is the 4x4 identity with (v.x, v.y, v.z, 1) as its last
\* column; it takes a point (p, 1) to (p + v, 1) and a direction (d, 0) to
\* (d, 0); translate(a) * translate(b) == translate(a + b).
C19_TranslateMovesPointsNotDirections ==
    op = "translate" =>
        /\ result.x = vec4(I(1), I(0), I(0), I(0))
        /\ result.y = vec4(I(0), I(1), I(0), I(0))
        /\ result.z = vec4(I(0), I(0), I(1), I(0))
        /\ result.w = vec4(args.a.x, args.a.y, args.a.z, I(1))
        /\ Apply4(result, vec4From3(args.b, I(1))) = vec4From3(add3(args.b, args.a), I(1))
        /\ Apply4(result, vec4From3(args.b, I(0))) = vec4From3(args.b, I(0))
        /\ Mat4TimesMat4(result, translate(args.b)) = translate(add3(args.a, args.b))

\* C19: a translation that is not the identity has been built and moves a
\* point that is not the origin
C19_TranslatedPoint ==
    /\ op = "translate"
    /\ args.a = vec3(I(1), I(-1), I(0))
    /\ args.b = vec3(Rat(1, 2), I(-3), I(2))
    /\ Apply4(result, vec4From3(args.b, I(1))) = vec4(Rat(3, 2), I(-4), I(2), I(1))

----------------------------------------------------------------------------
(* Claim C20 *)

\* clip-space coordinates of the view-space point (1, -2, z)
ClipOf(m, z) == Apply4(m, vec4(I(1), I(-2), z, I(1)))

\* depth z/w of the view-space point (1, -2, -plane)
DepthAt(m, plane) == Value({Div(c.z, c.w) : c \in {ClipOf(m, Neg(plane))}})

\* what the claim says of the matrix returned, the other builder's matrix
\* being that of the same arguments
ClipConventions ==
    LET vk == perspectiveProjectionToVulkanClipSpace(args.fovy, args.aspectRatio,
                                                     args.zNear, args.zFar)
        gl == perspectiveProjectionToOpenGLClipSpace(args.fovy, args.aspectRatio,
                                                     args.zNear, args.zFar)
    IN  /\ op = "perspectiveVulkan" =>
               /\ result = vk
               /\ DepthAt(result, args.zNear) = I(0)
               /\ DepthAt(result, args.zFar) = I(1)
        /\ op = "perspectiveOpenGL" =>
               /\ result = gl
               /\ DepthAt(result, args.zNear) = I(-1)
               /\ DepthAt(result, args.zFar) = I(1)
        /\ ClipOf(result, Neg(args.zNear)).w = args.zNear
        /\ ClipOf(result, Neg(args.zFar)).w = args.zFar
        /\ vk.x.x = gl.x.x
        /\ vk.y.y = Neg(gl.y.y)

\* a builder has returned, for planes at multiples of 1/8: the depths of
\* planes an epsilon apart are beyond the integers of the model
PerspectiveReturned ==
    /\ op \in {"perspectiveVulkan", "perspectiveOpenGL"}
    /\ outcome = "returned"
    /\ args.zNear.d <= 8
    /\ args.zFar.d <= 8

\* C20 as stated: for zNear # zFar, the matrix a perspective builder returns
\* gives a point on the near plane depth 0 (Vulkan) or -1 (OpenGL) and one on
\* the far plane depth 1, sets clip w = -z, and the two builders have the same
\* x scale and opposite y scales.
C20_ClipSpaceConventions ==
    (PerspectiveReturned /\ args.zNear # args.zFar) => ClipConventions

\* C20 for planes that are not at the eye: zNear # zFar, zNear # 0, zFar # 0.
C20_ClipSpaceConventionsAwayFromEye ==
    (/\ PerspectiveReturned
     /\ args.zNear # args.zFar
     /\ args.zNear # I(0)
     /\ args.zFar # I(0)) => ClipConventions

\* C20: the Vulkan builder has returned the matrix of zNear = 1/8, zFar = 16
C20_VulkanDepthRange ==
    /\ op = "perspectiveVulkan"
    /\ outcome = "returned"
    /\ args.zNear = Rat(1, 8)
    /\ args.zFar = I(16)
    /\ DepthAt(result, args.zNear) = I(0)
    /\ DepthAt(result, args.zFar) = I(1)

----------------------------------------------------------------------------
(* Orthographic projection (transform.h) *)

\* enum class OrthographicProjectionDepthMode
OrthographicProjectionDepthMode == {"ZeroToOne", "NegativeOneToOne"}

\* the general form with both depth entries those of the [0, 1] range
orthographicProjectionZeroToOneOnly(left, right, bottom, top, zNear, zFar, depthMode) ==
    mat4(vec4(Div(I(2), Sub(right, left)), I(0), I(0), I(0)),
         vec4(I(0), Div(I(2), Sub(top, bottom)), I(0), I(0)),
         vec4(I(0), I(0), Div(Neg(I(1)), Sub(zFar, zNear)), I(0)),
         vec4(Div(Neg(Add(right, left)), Sub(right, left)),
              Div(Neg(Add(top, bottom)), Sub(top, bottom)),
              Div(Neg(zNear), Sub(zFar, zNear)), I(1)))

\* orthographicProjection(left, right, bottom, top, zNear, zFar, depthMode)
orthographicProjection(left, right, bottom, top, zNear, zFar, depthMode) ==
    LET zz == IF depthMode = "ZeroToOne"
              THEN Div(Neg(I(1)), Sub(zFar, zNear))
              ELSE Div(Neg(I(2)), Sub(zFar, zNear))
        wz == IF depthMode = "ZeroToOne"
              THEN Div(Neg(zNear), Sub(zFar, zNear))
              ELSE Div(Neg(Add(zFar, zNear)), Sub(zFar, zNear))
    IN  mat4(vec4(Div(I(2), Sub(right, left)), I(0), I(0), I(0)),
             vec4(I(0), Div(I(2), Sub(top, bottom)), I(0), I(0)),
             vec4(I(0), I(0), zz, I(0)),
             vec4(Div(Neg(Add(right, left)), Sub(right, left)),
                  Div(Neg(Add(top, bottom)), Sub(top, bottom)),
                  wz, I(1)))

orthographicProjectionToVulkanClipSpace(size, zNear, zFar) ==
    Value({orthographicProjection(Neg(halfSize), halfSize, halfSize, Neg(halfSize),
                                  zNear, zFar, "ZeroToOne") :
               halfSize \in {Div(size, I(2))}})

orthographicProjectionToOpenGLClipSpace(size, zNear, zFar) ==
    Value({orthographicProjection(Neg(halfSize), halfSize, Neg(halfSize), halfSize,
                                  zNear, zFar, "NegativeOneToOne") :
               halfSize \in {Div(size, I(2))}})

\* view volumes: regular, mirrored, off centre, and with planes that coincide
OrthoInputs ==
    {[kind |-> "ortho", left |-> l, right |-> r, bottom |-> b, top |-> t,
      zNear |-> n, zFar |-> f, depthMode |-> d] :
        l \in {I(-2), I(0), Rat(1, 2)}, r \in {I(2), I(0), I(3)},
        b \in {I(-1), I(1)}, t \in {I(1), Rat(-3, 2)},
        n \in {I(0), Rat(1, 8), I(1)}, f \in {I(1), I(16)},
        d \in OrthographicProjectionDepthMode}
    \cup {[kind |-> "orthoSize", size |-> s, zNear |-> n, zFar |-> f] :
            s \in {I(0), I(1), Rat(5, 2), I(-4)} \cup {I(2 * k) : k \in 1 .. VecRange},
            n \in {I(0), Rat(1, 8), I(1)}, f \in {I(1), I(16)}}

CallOrthographicProjection ==
    /\ args.kind = "ortho"
    /\ Returned("orthographicProjection",
                orthographicProjection(args.left, args.right, args.bottom, args.top,
                                       args.zNear, args.zFar, args.depthMode))
    /\ UNCHANGED <<cfg, hookCalled, box, pts, rnd>>

CallOrthographicVulkan ==
    /\ args.kind = "orthoSize"
    /\ Returned("orthographicVulkan",
                orthographicProjectionToVulkanClipSpace(args.size, args.zNear, args.zFar))
    /\ UNCHANGED <<cfg, hookCalled, box, pts, rnd>>

CallOrthographicOpenGL ==
    /\ args.kind = "orthoSize"
    /\ Returned("orthographicOpenGL",
                orthographicProjectionToOpenGLClipSpace(args.size, args.zNear, args.zFar))
    /\ UNCHANGED <<cfg, hookCalled, box, pts, rnd>>

InitOrtho == cfg \in DefaultCfgs /\ args \in OrthoInputs /\ Idle

NextOrtho ==
    \/ CallOrthographicProjection
    \/ CallOrthographicVulkan
    \/ CallOrthographicOpenGL

SpecOrtho == InitOrtho /\ [][NextOrtho]_vars

----------------------------------------------------------------------------
(* Claim C21 *)

\* clip-space x of the view-space points with this x, and so for y
ClipX(m, x) == Apply4(m, vec4(x, I(5), I(-7), I(1))).x
ClipY(m, y) == Apply4(m, vec4(I(5), y, I(-7), I(1))).y

\* depth z/w of the view-space points at distance plane in front of the eye
OrthoDepthAt(m, plane) ==
    Value({Div(c.z, c.w) : c \in {Apply4(m, vec4(I(5), I(-7), Neg(plane), I(1)))}})

\* the six planes go to the faces of the clip volume of the depth mode
FacesOfClipVolume(m, left, right, bottom, top, zNear, zFar, depthMode) ==
    /\ ClipX(m, left) = I(-1)
    /\ ClipX(m, right) = I(1)
    /\ ClipY(m, bottom) = I(-1)
    /\ ClipY(m, top) = I(1)
    /\ OrthoDepthAt(m, zNear) = (IF depthMode = "ZeroToOne" THEN I(0) ELSE I(-1))
    /\ OrthoDepthAt(m, zFar) = I(1)

WrappersAreGeneralForm ==
    /\ op = "orthographicVulkan" =>
           result = orthographicProjection(Neg(Div(args.size, I(2))), Div(args.size, I(2)),
                                           Div(args.size, I(2)), Neg(Div(args.size, I(2))),
                                           args.zNear, args.zFar, "ZeroToOne")
    /\ op = "orthographicOpenGL" =>
           result = orthographicProjection(Neg(Div(args.size, I(2))), Div(args.size, I(2)),
                                           Neg(Div(args.size, I(2))), Div(args.size, I(2)),
                                           args.zNear, args.zFar, "NegativeOneToOne")

----------------------------------------------------------------------------
(* Random (random.h): one engine per Random object, one object per thread *)

\* the states of std::mt19937_64 m_engine, as far as the model tells them apart
EngineStates == 4

\* what std::random_device()() may seed the engine with
Seeds == 0 .. EngineStates - 1

\* the engine after one number was drawn from it
Advance(s) == (s + 1) % EngineStates

\* a function-local static without thread_local: one object for the process
ObjectOfProcess(t) == 1

\* static thread_local Random s_randomObjectForThread {}: the object the name
\* denotes in thread t is that thread's own
ObjectOfThread(t) == t

\* Random::instanceForThisThread(), called by thread t: the object is
\* constructed (and its engine seeded) when control first passes through its
\* declaration in this thread; a reference to it is returned
InstanceForThisThread(t) ==
    LET i == ObjectOfThread(t)
    IN  /\ rnd.pc[t] = "idle"
        /\ rnd.draws[t] < MaxDraws
        /\ \E seed \in Seeds :
               rnd' = [rnd EXCEPT
                           !.constructed[i] = TRUE,
                           !.engine[i] = IF rnd.constructed[i] THEN @ ELSE seed,
                           !.ref[t] = i,
                           !.returned[t] = @ \cup {i},
                           !.pc[t] = "got"]
        /\ op' = "instanceForThisThread"
        /\ args' = [kind |-> "threads", thread |-> t]
        /\ result' = i
        /\ outcome' = "returned"
        /\ UNCHANGED <<cfg, hookCalled, box, pts>>

\* a draw (randomFloatInRange, randomIntInRange) on the object thread t was
\* handed: the distribution reads the engine ...
DrawRead(t) ==
    /\ rnd.pc[t] = "got"
    /\ rnd' = [rnd EXCEPT !.loaded[t] = rnd.engine[rnd.ref[t]],
                          !.users[rnd.ref[t]] = @ \cup {t},
                          !.pc[t] = "read"]
    /\ op' = "drawRead"
    /\ args' = [kind |-> "threads", thread |-> t]
    /\ result' = rnd.engine[rnd.ref[t]]
    /\ outcome' = "none"
    /\ UNCHANGED <<cfg, hookCalled, box, pts>>

\* ... and writes the state that follows the one it read
DrawWrite(t) ==
    /\ rnd.pc[t] = "read"
    /\ rnd' = [rnd EXCEPT !.engine[rnd.ref[t]] = Advance(rnd.loaded[t]),
                          !.users[rnd.ref[t]] = @ \cup {t},
                          !.draws[t] = @ + 1,
                          !.pc[t] = "idle"]
    /\ op' = "drawWrite"
    /\ args' = [kind |-> "threads", thread |-> t]
    /\ result' = rnd.loaded[t]
    /\ outcome' = "returned"
    /\ UNCHANGED <<cfg, hookCalled, box, pts>>

InitRandom ==
    /\ cfg = [asserts |-> TRUE, hook |-> "default"]
    /\ args = [kind |-> "threads"]
    /\ Idle

NextRandom ==
    \E t \in Threads :
        \/ InstanceForThisThread(t)
        \/ DrawRead(t)
        \/ DrawWrite(t)

SpecRandom == InitRandom /\ [][NextRandom]_vars

----------------------------------------------------------------------------
(* Claim C22 *)

\* C22: every call of instanceForThisThread from one thread returns the same
\* object, constructed at that thread's first call and not before; no object
\* is returned to two threads; no engine is read or written by two threads.
C22_OneRandomPerThread ==
    /\ \A t \in Threads : Cardinality(rnd.returned[t]) <= 1
    /\ \A t \in Threads, u \in Threads :
           t # u => rnd.returned[t] \cap rnd.returned[u] = {}
    /\ \A i \in Threads :
           rnd.constructed[i] <=> \E t \in Threads : i \in rnd.returned[t]
    /\ \A i \in Threads : Cardinality(rnd.users[i]) <= 1

\* C22: two threads are inside a draw at once, each on an object of its own,
\* after a draw of each
C22_DrawsInterleaved ==
    /\ rnd.pc[1] = "read"
    /\ rnd.pc[2] = "read"
    /\ rnd.draws[1] = 1
    /\ rnd.draws[2] = 1
    /\ rnd.ref[1] # rnd.ref[2]

----------------------------------------------------------------------------
(* The in-place operators of the vectors (math.h) *)

vec2(x, y) == [x |-> x, y |-> y]

\* the compound assignments that are members of tvec2: += and -= take a
\* tvec2, *= and /= a scalar; each assigns the components in turn.  The set
\* holds the receiver after the call, and is empty where there is no such
\* member.
tvec2InPlace(opr, by, a, b) ==
    CASE opr = "+=" /\ by = "vector" -> {vec2(Add(a.x, b.x), Add(a.y, b.y))}
      [] opr = "-=" /\ by = "vector" -> {vec2(Sub(a.x, b.x), Sub(a.y, b.y))}
      [] opr = "*=" /\ by = "scalar" -> {vec2(Mul(a.x, b), Mul(a.y, b))}
      [] opr = "/=" /\ by = "scalar" -> {vec2(Div(a.x, b), Div(a.y, b))}
      [] OTHER -> {}

\* the compound assignments that are members of tvec3: *= and /=, each by a
\* tvec3 (componentwise) and by a scalar; there is no += and no -=
tvec3InPlace(opr, by, a, b) ==
    CASE opr = "*=" /\ by = "vector" ->
             {vec3(Mul(a.x, b.x), Mul(a.y, b.y), Mul(a.z, b.z))}
      [] opr = "/=" /\ by = "vector" ->
             {vec3(Div(a.x, b.x), Div(a.y, b.y), Div(a.z, b.z))}
      [] opr = "*=" /\ by = "scalar" -> {vec3(Mul(a.x, b), Mul(a.y, b), Mul(a.z, b))}
      [] opr = "/=" /\ by = "scalar" -> {vec3(Div(a.x, b), Div(a.y, b), Div(a.z, b))}
      [] OTHER -> {}

\* tvec4 has constructors and xyz() only
tvec4InPlace(opr, by, a, b) == {}

\* what the receiver of a op= b holds after the call, if a has the operator
InPlace(arity, opr, by, a, b) ==
    CASE arity = 2 -> tvec2InPlace(opr, by, a, b)
      [] arity = 3 -> tvec3InPlace(opr, by, a, b)
      [] arity = 4 -> tvec4InPlace(opr, by, a, b)

\* the terms that XYZ::fromBlackBodyTemperature adds up, one per step:
\* fromSingleWavelength(power, wavelength) * stepWidth
Terms == {vec3(I(1), I(0), I(2)), vec3(Rat(1, 2), I(1), I(0)), vec3(I(0), I(3), I(1))}

RECURSIVE AccumulateXYZ(_, _)
\* vec3 XYZ = {0, 0, 0}; for each step: XYZ += term
AccumulateXYZ(XYZ, terms) ==
    IF terms = <<>> THEN XYZ
    ELSE AccumulateXYZ(add3(XYZ, Head(terms)), Tail(terms))

Vecs2 == {vec2(x, y) : x \in Components, y \in Components}
Scalars == {I(2), I(-1), Rat(1, 2), I(0)}

InPlaceInputs ==
    {[kind |-> "inPlace", arity |-> 2, opr |-> o, by |-> "vector", a |-> a, b |-> b] :
        o \in {"+=", "-="}, a \in Vecs2, b \in Vecs2}
    \cup {[kind |-> "inPlace", arity |-> 2, opr |-> o, by |-> "scalar", a |-> a, b |-> b] :
        o \in {"*=", "/="}, a \in Vecs2, b \in Scalars}
    \cup {[kind |-> "inPlace", arity |-> 3, opr |-> o, by |-> "vector", a |-> a, b |-> b] :
        o \in {"+=", "-="}, a \in CrossVecs, b \in CrossVecs}
    \cup {[kind |-> "inPlace", arity |-> 3, opr |-> o, by |-> "scalar", a |-> a, b |-> b] :
        o \in {"*=", "/="}, a \in CrossVecs, b \in Scalars}
    \cup {[kind |-> "inPlace", arity |-> 4, opr |-> o, by |-> "vector", a |-> a, b |-> b] :
        o \in {"+=", "-="}, a \in Vecs4, b \in Vecs4}
    \cup {[kind |-> "inPlace", arity |-> 4, opr |-> o, by |-> "scalar", a |-> a, b |-> b] :
        o \in {"*=", "/="}, a \in Vecs4, b \in Scalars}
    \cup {[kind |-> "blackBody", terms |-> <<s, t>>] : s \in Terms, t \in Terms}
    \cup {[kind |-> "blackBody", terms |-> <<s, t, u>>] :
        s \in Terms, t \in Terms, u \in Terms}

\* a op= b: the receiver is assigned, the operand is passed by value or by
\* reference to const, and *this is returned by reference
CallInPlace ==
    /\ args.kind = "inPlace"
    /\ \E r \in {InPlace(args.arity, args.opr, args.by, args.a, args.b)} :
           IF r = {}
           THEN IllFormed("inPlace")
           ELSE Returned("inPlace",
                         [receiver |-> Value(r), operand |-> args.b,
                          returns |-> "receiver"])
    /\ UNCHANGED <<cfg, hookCalled, box, pts, rnd>>

\* colorspace::XYZ::fromBlackBodyTemperature: XYZ += ... on a vec3
CallFromBlackBodyTemperature ==
    /\ args.kind = "blackBody"
    /\ IF InPlace(3, "+=", "vector", vec3(I(0), I(0), I(0)), Head(args.terms)) = {}
       THEN IllFormed("fromBlackBodyTemperature")
       ELSE Returned("fromBlackBodyTemperature",
                     AccumulateXYZ(vec3(I(0), I(0), I(0)), args.terms))
    /\ UNCHANGED <<cfg, hookCalled, box, pts, rnd>>

InitInPlace == cfg \in DefaultCfgs /\ args \in InPlaceInputs /\ Idle

NextInPlace ==
    \/ CallInPlace
    \/ CallFromBlackBodyTemperature

SpecInPlace == InitInPlace /\ [][NextInPlace]_vars

----------------------------------------------------------------------------
(* Claim C23 *)

\* a op b for the binary operator that op= abbreviates, componentwise
BinaryOf(opr, by, a, b) ==
    LET f(p, q) == CASE opr = "+=" -> Add(p, q)
                     [] opr = "-=" -> Sub(p, q)
                     [] opr = "*=" -> Mul(p, q)
                     [] opr = "/=" -> Div(p, q)
    IN  [c \in DOMAIN a |-> f(a[c], IF by = "vector" THEN b[c] ELSE b)]

\* C23: for vectors of every arity, after a += b, a -= b (b a vector),
\* a *= b, a /= b (b a scalar) the receiver holds a op b of its old value,
\* the operand is unchanged and the receiver itself is returned; the vec3 +=
\* of XYZ::fromBlackBodyTemperature accumulates the sum of its terms.
C23_InPlaceOperatorsOfEveryArity ==
    /\ op = "inPlace" =>
           /\ outcome = "returned"
           /\ result.receiver = BinaryOf(args.opr, args.by, args.a, args.b)
           /\ result.operand = args.b
           /\ result.returns = "receiver"
    /\ op = "fromBlackBodyTemperature" =>
           /\ outcome = "returned"
           /\ result = AccumulateXYZ(vec3(I(0), I(0), I(0)), args.terms)

----------------------------------------------------------------------------
(* clamp (math.h) *)

\* the bounds the wrong way round: min(lo, max(x, hi))
clampOutside(x, min, max) == stdmin(min, stdmax(x, max))

\* clamp(T x, T min, T max)
clamp(x, min, max) == stdmax(min, stdmin(x, max))

min2(lhs, rhs) == vec2(stdmin(lhs.x, rhs.x), stdmin(lhs.y, rhs.y))
max2(lhs, rhs) == vec2(stdmax(lhs.x, rhs.x), stdmax(lhs.y, rhs.y))

\* clamp(const tvec2&, const tvec2&, const tvec2&)
clamp2(x, minEdge, maxEdge) == max2(minEdge, min2(x, maxEdge))

\* clamp(const tvec3&, const tvec3&, const tvec3&)
clamp3(x, minEdge, maxEdge) == max3(minEdge, min3(x, maxEdge))

ClampScalars == Components \cup {Rat(1, 2), PosInf, NegInf, NaN}
ClampVecs2 == {vec2(x, y) : x \in Components \cup {NaN}, y \in Components \cup {NaN}}
ClampVecs3 ==
    {vec3(I(0), I(0), I(0)), vec3(I(1), I(1), I(1)), vec3(I(-1), I(0), I(1)),
     vec3(I(1), I(-1), I(0)), vec3(Rat(1, 2), I(2), I(-2)),
     vec3(Rat(1, 2), Rat(1, 2), Rat(1, 2)), vec3(I(0), NaN, I(1)),
     vec3(PosInf, I(0), NegInf)}

ClampInputs ==
    {[kind |-> "clamp", arity |-> 1, x |-> x, min |-> lo, max |-> hi] :
        x \in ClampScalars, lo \in ClampScalars, hi \in ClampScalars}
    \cup {[kind |-> "clamp", arity |-> 2, x |-> x, min |-> lo, max |-> hi] :
        x \in ClampVecs2, lo \in ClampVecs2, hi \in ClampVecs2}
    \cup {[kind |-> "clamp", arity |-> 3, x |-> x, min |-> lo, max |-> hi] :
        x \in ClampVecs3, lo \in ClampVecs3, hi \in ClampVecs3}

CallClamp ==
    /\ args.kind = "clamp"
    /\ args.arity = 1
    /\ Returned("clamp", clamp(args.x, args.min, args.max))
    /\ UNCHANGED <<cfg, hookCalled, box, pts, rnd>>

CallClamp2 ==
    /\ args.kind = "clamp"
    /\ args.arity = 2
    /\ Returned("clamp", clamp2(args.x, args.min, args.max))
    /\ UNCHANGED <<cfg, hookCalled, box, pts, rnd>>

CallClamp3 ==
    /\ args.kind = "clamp"
    /\ args.arity = 3
    /\ Returned("clamp", clamp3(args.x, args.min, args.max))
    /\ UNCHANGED <<cfg, hookCalled, box, pts, rnd>>

\* clamp of what clamp returned, with the same bounds
CallClampOfClamped ==
    /\ op = "clamp"
    /\ op' = "clampOfClamped"
    /\ result' = CASE args.arity = 1 -> clamp(result, args.min, args.max)
                   [] args.arity = 2 -> clamp2(result, args.min, args.max)
                   [] args.arity = 3 -> clamp3(result, args.min, args.max)
    /\ UNCHANGED <<cfg, args, outcome, hookCalled, box, pts, rnd>>

InitClamp == cfg \in DefaultCfgs /\ args \in ClampInputs /\ Idle

NextClamp ==
    \/ CallClamp
    \/ CallClamp2
    \/ CallClamp3
    \/ CallClampOfClamped

SpecClamp == InitClamp /\ [][NextClamp]_vars

----------------------------------------------------------------------------
(* Claim C24 *)

\* the components of a scalar (one, the scalar itself) or of a vector
ComponentsOf(arity, v) ==
    CASE arity = 1 -> <<v>>
      [] arity = 2 -> <<v.x, v.y>>
      [] arity = 3 -> <<v.x, v.y, v.z>>

\* what the claim says of one component r of clamp(x, lo, hi)
Clamped(r, x, lo, hi) ==
    /\ r = stdmax(lo, stdmin(x, hi))
    /\ LessEq(lo, hi) =>
           /\ LessEq(lo, r) /\ LessEq(r, hi)
           /\ LessEq(lo, x) /\ LessEq(x, hi) => r = x
           /\ Less(x, lo) => r = lo
           /\ Greater(x, hi) => r = hi

\* C24: clamp(x, lo, hi) is max(lo, min(x, hi)), componentwise for vec2 and
\* vec3; where lo <= hi the result lies in [lo, hi], is x if lo <= x <= hi,
\* lo if x < lo and hi if x > hi; clamping the result again with the same
\* bounds returns it unchanged.
C24_ClampIsMaxOfMin ==
    /\ op = "clamp" =>
           LET r == ComponentsOf(args.arity, result)
               x == ComponentsOf(args.arity, args.x)
               lo == ComponentsOf(args.arity, args.min)
               hi == ComponentsOf(args.arity, args.max)
           IN  \A i \in 1 .. args.arity : Clamped(r[i], x[i], lo[i], hi[i])
    /\ op = "clampOfClamped" =>
           result = CASE args.arity = 1 -> clamp(args.x, args.min, args.max)
                      [] args.arity = 2 -> clamp2(args.x, args.min, args.max)
                      [] args.arity = 3 -> clamp3(args.x, args.min, args.max)

\* C24: a vec2 with one component below its lower edge and one above its
\* upper edge has been clamped twice
C24_ClampedAtBothEdges ==
    /\ op = "clampOfClamped"
    /\ args.arity = 2
    /\ args.x = vec2(I(-1), I(1))
    /\ args.min = vec2(I(0), I(-1))
    /\ args.max = vec2(I(1), I(0))
    /\ result = vec2(I(0), I(0))

----------------------------------------------------------------------------
(* Claim C25 *)

AxisSeq == <<"x", "y", "z", "w">>

\* the entry in row r and column c of a matrix stored as columns
At(m, r, c) == m[AxisSeq[c]][AxisSeq[r]]

\* 1 .. 4 without i, in order
Others(i) == SelectSeq(<<1, 2, 3, 4>>, LAMBDA k : k # i)

\* the determinant of m without row r and column c, by the rule of Sarrus
MinorAt(m, r, c) ==
    LET R == Others(r)
        C == Others(c)
        e(i, j) == At(m, R[i], C[j])
    IN  Sub(Add(Add(Mul(Mul(e(1, 1), e(2, 2)), e(3, 3)),
                    Mul(Mul(e(1, 2), e(2, 3)), e(3, 1))),
                Mul(Mul(e(1, 3), e(2, 1)), e(3, 2))),
            Add(Add(Mul(Mul(e(1, 3), e(2, 2)), e(3, 1)),
                    Mul(Mul(e(1, 1), e(2, 3)), e(3, 2))),
                Mul(Mul(e(1, 2), e(2, 1)), e(3, 3))))

Cofactor4(m, r, c) == IF (r + c) % 2 = 0 THEN MinorAt(m, r, c) ELSE Neg(MinorAt(m, r, c))

\* the determinant, expanded along the first row
CofactorDeterminant4(m) ==
    Add(Add(Add(Mul(At(m, 1, 1), Cofactor4(m, 1, 1)), Mul(At(m, 1, 2), Cofactor4(m, 1, 2))),
            Mul(At(m, 1, 3), Cofactor4(m, 1, 3))),
        Mul(At(m, 1, 4), Cofactor4(m, 1, 4)))

\* C25: for every 4x4 matrix whose determinant is not near zero, the det of
\* inverse(m) is the cofactor-expansion determinant, entry (r, c) of the
\* matrix it returns is the cofactor of (c, r) divided by det, and
\* m * inverse(m) is the identity.
C25_Inverse4IsAdjugateOverDeterminant ==
    (op = "inverse4" /\ outcome = "returned" /\ ~hookCalled) =>
        \E det \in {CofactorDeterminant4(args.m)} :
            /\ inverse4det(args.m) = det
            /\ \A r \in 1 .. 4, c \in 1 .. 4 :
                   At(result, r, c) = Div(Cofactor4(args.m, c, r), det)
            /\ Mat4TimesMat4(args.m, result) = mat4Diag(I(1))

\* C25: the test matrix has been inverted; its determinant is -8 and the
\* first entry of the inverse is -1/2
C25_TestMatrixInverted ==
    /\ op = "inverse4"
    /\ outcome = "returned"
    /\ ~hookCalled
    /\ args.m = TestMat4
    /\ inverse4det(args.m) = I(-8)
    /\ result.x.x = Rat(-1, 2)

----------------------------------------------------------------------------
(* The f32 specialisation of dot for tvec4 (math.h) *)

\* _mm_mul_ps: the four lanes multiplied pairwise
mm_mul_ps(a, b) == <<Mul(a[1], b[1]), Mul(a[2], b[2]), Mul(a[3], b[3]), Mul(a[4], b[4])>>

\* value_ptr(v) read as a __m128: the lanes are x, y, z, w in this order
Lanes(v) == <<v.x, v.y, v.z, v.w>>

\* the __SSE__ branch: prod[0] + prod[1] + prod[2] + prod[3]
dotF32(lhs, rhs) ==
    LET prod == mm_mul_ps(Lanes(lhs), Lanes(rhs))
    IN  Add(Add(Add(prod[1], prod[2]), prod[3]), prod[4])

\* where a tvec4<f32> may lie: its alignment is that of f32, so its address
\* is one of these modulo the 16 bytes of a __m128
AddressesMod16 == {0, 4, 8, 12}

\* *a and *b are reads of a __m128, which has to lie on a 16-byte boundary
Aligned16(address) == address % 16 = 0

DotInputs ==
    {[kind |-> "dot4", lhs |-> l, rhs |-> r, lhsAt |-> p, rhsAt |-> q] :
        l \in Vecs4, r \in Vecs4, p \in AddressesMod16, q \in AddressesMod16}
    \cup {[kind |-> "dot4", lhs |-> vec4(I(1), I(2), I(3), I(4)),
           rhs |-> vec4(I(40), I(30), I(20), I(10)), lhsAt |-> p, rhsAt |-> q] :
        p \in AddressesMod16, q \in AddressesMod16}

\* the process is ended by a signal
Crashed(name) ==
    /\ op = "none"
    /\ op' = name
    /\ result' = <<>>
    /\ outcome' = "crashed"
    /\ UNCHANGED args

\* f32 dot(const tvec4<f32>&, const tvec4<f32>&).  With __SSE__ the operands
\* are read through a pointer to __m128; for an operand that is not on a
\* 16-byte boundary the read is undefined: the build either reads it all the
\* same (an unaligned load) or faults (an aligned load).
CallDotF32 ==
    /\ args.kind = "dot4"
    /\ IF ~cfg.sse
       THEN Returned("dot", dot4(args.lhs, args.rhs))
       ELSE IF Aligned16(args.lhsAt) /\ Aligned16(args.rhsAt)
            THEN Returned("dot", dotF32(args.lhs, args.rhs))
            ELSE \/ Returned("dot", dotF32(args.lhs, args.rhs))
                 \/ Crashed("dot")
    /\ UNCHANGED <<cfg, hookCalled, box, pts, rnd>>

\* the builds: with and without __SSE__
InitDot ==
    /\ cfg \in {[asserts |-> TRUE, hook |-> "default", sse |-> s] : s \in BOOLEAN}
    /\ args \in DotInputs
    /\ Idle

NextDot == CallDotF32

SpecDot == InitDot /\ [][NextDot]_vars

----------------------------------------------------------------------------
(* Claim C26 *)

\* C26: the f32 dot of two 4-vectors returns
\* lhs.x*rhs.x + lhs.y*rhs.y + lhs.z*rhs.z + lhs.w*rhs.w for all inputs on
\* which the arithmetic is exact; dot((1,2,3,4), (40,30,20,10)) is 200.
C26_DotF32IsScalarDot ==
    op = "dot" =>
        /\ outcome = "returned"
        /\ result = Add(Add(Add(Mul(args.lhs.x, args.rhs.x), Mul(args.lhs.y, args.rhs.y)),
                            Mul(args.lhs.z, args.rhs.z)),
                        Mul(args.lhs.w, args.rhs.w))
        /\ (args.lhs = vec4(I(1), I(2), I(3), I(4))
              /\ args.rhs = vec4(I(40), I(30), I(20), I(10))) => result = I(200)

----------------------------------------------------------------------------
(* Claim C27 *)

\* operator== of T: no NaN is equal to anything
EqualNumbers(a, b) == ~IsNaN(a) /\ ~IsNaN(b) /\ a = b

FinitePoint(p) == \A i \in AxisNames : IsFinite(p[i])

\* contains answers false for every finite point while no point was added
EmptyBeforeFirstPoint ==
    (pts = <<>> /\ op = "contains" /\ FinitePoint(args.point)) => ~result

\* C27 as stated: a default-constructed aabb3 contains no finite point until
\* the first expandWithPoint call, and after the first call, with p0,
\* min == max == p0.
C27_EmptyThenSinglePoint ==
    /\ EmptyBeforeFirstPoint
    /\ Len(pts) = 1 =>
           \A i \in AxisNames :
               EqualNumbers(box.min[i], pts[1][i]) /\ EqualNumbers(box.max[i], pts[1][i])

\* C27: a default-constructed aabb3 contains no finite point until the first
\* expandWithPoint call; after the first call, with p0, min.i == max.i == p0.i
\* in every component in which p0 is not NaN, and min.i and max.i are NaN in
\* the others.
C27_EmptyThenSinglePointUnlessNaN ==
    /\ EmptyBeforeFirstPoint
    /\ Len(pts) = 1 =>
           \A i \in AxisNames :
               IF IsNaN(pts[1][i])
               THEN IsNaN(box.min[i]) /\ IsNaN(box.max[i])
               ELSE EqualNumbers(box.min[i], pts[1][i])
                        /\ EqualNumbers(box.max[i], pts[1][i])

\* C27: the box is the single point (1,2,3), and contains answers for it
C27_FirstPointContained ==
    /\ pts = <<vec3(I(1), I(2), I(3))>>
    /\ box.min = vec3(I(1), I(2), I(3))
    /\ box.max = vec3(I(1), I(2), I(3))
    /\ op = "contains"
    /\ args.point = vec3(I(1), I(2), I(3))
    /\ result

----------------------------------------------------------------------------
(* Claim C28 *)

NoNaNPoint(p) == \A i \in AxisNames : ~IsNaN(p[i])

\* what the claim says of one expandWithPoint call, from the box before it to
\* the box after it: no bound moves inwards, the point is contained, and
\* every point that was contained still is
GrowsBy(before, after, point) ==
    /\ \A i \in AxisNames :
           LessEq(after.min[i], before.min[i]) /\ GreaterEq(after.max[i], before.max[i])
    /\ contains(after, point)
    /\ \A p \in Points : contains(before, p) => contains(after, p)

\* C28 as stated: along any sequence of expandWithPoint calls min never
\* increases and max never decreases in any component, every point passed is
\* contained right after its call, and a point that is contained at some step
\* is contained at every later step.
C28_BoxOnlyGrows ==
    [][op' = "expandWithPoint" => GrowsBy(box, box', args'.point)]_vars

\* C28: the same along any sequence of expandWithPoint calls with points
\* that have no NaN component.
C28_BoxOnlyGrowsWithoutNaN ==
    [][(op' = "expandWithPoint" /\ \A k \in 1 .. Len(pts') : NoNaNPoint(pts'[k]))
           => GrowsBy(box, box', args'.point)]_vars

\* C28: a box that grew twice: the first point is still contained after the
\* third, and the bounds are strictly apart
C28_GrownBox ==
    /\ pts = <<vec3(I(1), I(2), I(3)), vec3(I(-1), I(5), I(0)), vec3(PosInf, I(0), NegInf)>>
    /\ op = "contains"
    /\ args.point = vec3(I(1), I(2), I(3))
    /\ result
    /\ Less(box.min.x, box.max.x)

----------------------------------------------------------------------------
(* Claim C29 *)

RECURSIVE ExpandedWith(_, _)
\* the box b after expandWithPoint with the points of P, in their order
ExpandedWith(b, P) ==
    IF P = <<>> THEN b ELSE ExpandedWith(expandWithPoint(b, Head(P)), Tail(P))

\* the points of P in every order
Reorderings(P) ==
    {[k \in 1 .. Len(P) |-> P[f[k]]] :
        f \in {g \in [1 .. Len(P) -> 1 .. Len(P)] :
                   \A i \in 1 .. Len(P), j \in 1 .. Len(P) : i # j => g[i] # g[j]}}

\* the box is the same whatever the order of the calls
SameInEveryOrder == \A Q \in Reorderings(pts) : ExpandedWith(aabb3Default, Q) = box

\* the last call, if its point was contained before it, changed nothing
ContainedPointChangesNothing ==
    (pts # <<>> /\ op = "expandWithPoint") =>
        \E before \in {ExpandedWith(aabb3Default, SubSeq(pts, 1, Len(pts) - 1))} :
            contains(before, pts[Len(pts)]) => box = before

\* C29 as stated: the box reached by expanding with a collection of points
\* does not depend on the order of the expandWithPoint calls, and expanding
\* with a point that is already contained leaves min and max unchanged.
C29_OrderAndRepetitionDoNotMatter ==
    /\ SameInEveryOrder
    /\ ContainedPointChangesNothing

\* C29: the same for collections of points without NaN components.
C29_OrderAndRepetitionDoNotMatterWithoutNaN ==
    /\ (\A k \in 1 .. Len(pts) : NoNaNPoint(pts[k])) => SameInEveryOrder
    /\ ContainedPointChangesNothing

\* C29: two different points were added and then the first one again, which
\* the box contained already
C29_RepeatedPoint ==
    /\ pts = <<vec3(I(1), I(2), I(3)), vec3(I(-1), I(5), I(0)), vec3(I(1), I(2), I(3))>>
    /\ op = "expandWithPoint"
    /\ box = [min |-> vec3(I(-1), I(2), I(0)), max |-> vec3(I(1), I(5), I(3))]

----------------------------------------------------------------------------
(* colorspace::HSV (math.h) *)

\* std::fmod(x, n) for a rational x and a whole n > 0: x - trunc(x / n) * n,
\* which has the sign of x; NaN for an infinite or NaN x
Fmod(x, n) ==
    IF ~IsFinite(x) THEN NaN
    ELSE Value({Rat(p.a - (IF p.a >= 0 THEN p.a \div (p.d * n)
                                       ELSE -((-p.a) \div (p.d * n))) * p.d * n,
                    p.d) : p \in {x}})

\* the hue after the first fmod only
NormalizeHueOnce(hue) == Fmod(hue, 360)

\* h = std::fmod(h, 360.0); h += 360.0; h = std::fmod(h, 360.0);
NormalizeHue(hue) == Fmod(Add(Fmod(hue, 360), I(360)), 360)

\* HSV::toRGB: h, the return statement that is reached (1 .. 6 for the
\* sextants, 0 for the one after MOOSLIB_ASSERT(false)) and its value
toRGB(HSV) ==
    LET h == NormalizeHue(HSV.x)
        s == HSV.y
        v == HSV.z
        c == Mul(v, s)
        hPrim == Div(h, I(60))
        x == Mul(c, Sub(I(1), Abs(Sub(Fmod(hPrim, 2), I(1)))))
        m == Sub(v, c)
    IN  CASE LessEq(hPrim, I(1)) ->
                 [h |-> h, branch |-> 1, value |-> vec3(Add(c, m), Add(x, m), m)]
          [] ~LessEq(hPrim, I(1)) /\ LessEq(hPrim, I(2)) ->
                 [h |-> h, branch |-> 2, value |-> vec3(Add(x, m), Add(c, m), m)]
          [] ~LessEq(hPrim, I(2)) /\ LessEq(hPrim, I(3)) ->
                 [h |-> h, branch |-> 3, value |-> vec3(m, Add(c, m), Add(x, m))]
          [] ~LessEq(hPrim, I(3)) /\ LessEq(hPrim, I(4)) ->
                 [h |-> h, branch |-> 4, value |-> vec3(m, Add(x, m), Add(c, m))]
          [] ~LessEq(hPrim, I(4)) /\ LessEq(hPrim, I(5)) ->
                 [h |-> h, branch |-> 5, value |-> vec3(Add(x, m), m, Add(c, m))]
          [] ~LessEq(hPrim, I(5)) /\ LessEq(hPrim, I(6)) ->
                 [h |-> h, branch |-> 6, value |-> vec3(Add(c, m), m, Add(x, m))]
          [] OTHER ->
                 [h |-> h, branch |-> 0, value |-> vec3(I(0), I(0), I(0))]

\* HSV::fromRGB: which branch computes h ("assert" for the else with
\* MOOSLIB_ASSERT(false), which leaves h at 0) and the value returned
fromRGB(RGB0) ==
    LET RGB == clamp3(RGB0, vec3(I(0), I(0), I(0)), vec3(I(1), I(1), I(1)))
        r == RGB.x
        g == RGB.y
        b == RGB.z
        xMax == stdmax(r, stdmax(g, b))
        xMin == stdmin(r, stdmin(g, b))
        c == Sub(xMax, xMin)
        v == xMax
        s == IF EqualNumbers(v, I(0)) THEN I(0) ELSE Div(c, v)
    IN  CASE EqualNumbers(c, I(0)) ->
                 [branch |-> "grey", value |-> vec3(I(0), s, v)]
          [] ~EqualNumbers(c, I(0)) /\ EqualNumbers(v, r) ->
                 [branch |-> "r", value |-> vec3(Div(Mul(I(60), Sub(g, b)), c), s, v)]
          [] ~EqualNumbers(c, I(0)) /\ ~EqualNumbers(v, r) /\ EqualNumbers(v, g) ->
                 [branch |-> "g",
                  value |-> vec3(Mul(I(60), Add(I(2), Div(Sub(b, r), c))), s, v)]
          [] ~EqualNumbers(c, I(0)) /\ ~EqualNumbers(v, r) /\ ~EqualNumbers(v, g)
                 /\ EqualNumbers(v, b) ->
                 [branch |-> "b",
                  value |-> vec3(Mul(I(60), Add(I(4), Div(Sub(r, g), c))), s, v)]
          [] OTHER -> [branch |-> "assert", value |-> vec3(I(0), s, v)]

Hues ==
    {I(30 * k) : k \in -25 .. 25}
    \cup {Rat(2 * k + 1, 2) : k \in -2 .. 2}
    \cup {Rat(719, 2), Rat(-719, 2), Rat(-1, 1024), I(100000), I(-100000),
          PosInf, NegInf, NaN}

ColourInputs ==
    {[kind |-> "hsv", HSV |-> vec3(h, s, v)] :
        h \in Hues, s \in {I(0), Rat(1, 2), I(1)}, v \in {I(0), Rat(1, 2), I(1)}}
    \cup {[kind |-> "rgb", RGB |-> vec3(r, g, b)] :
        r \in ClampScalars, g \in ClampScalars, b \in ClampScalars}

CallToRGB ==
    /\ args.kind = "hsv"
    /\ \E res \in {toRGB(args.HSV)} :
           IF AssertPasses(cfg, res.branch # 0)
           THEN Returned("toRGB", res)
           ELSE Aborted("toRGB", res)
    /\ UNCHANGED <<cfg, hookCalled, box, pts, rnd>>

CallFromRGB ==
    /\ args.kind = "rgb"
    /\ \E res \in {fromRGB(args.RGB)} :
           IF AssertPasses(cfg, res.branch # "assert")
           THEN Returned("fromRGB", res)
           ELSE Aborted("fromRGB", res)
    /\ UNCHANGED <<cfg, hookCalled, box, pts, rnd>>

InitColour == cfg \in Cfgs /\ args \in ColourInputs /\ Idle

NextColour ==
    \/ CallToRGB
    \/ CallFromRGB

SpecColour == InitColour /\ [][NextColour]_vars

----------------------------------------------------------------------------
(* Claim C30 *)

\* C30: for every finite hue HSV::toRGB has h in [0, 360) after the two
\* fmod, so h / 60 is in [0, 6) and the return of its sextant, and no other,
\* is the one reached, not the one after MOOSLIB_ASSERT(false); HSV::fromRGB
\* never reaches its MOOSLIB_ASSERT(false), because the maximum of the
\* clamped components is r, g or b.
C30_HSVAssertsAreNotReached ==
    /\ (op = "toRGB" /\ IsFinite(args.HSV.x)) =>
           /\ outcome = "returned"
           /\ LessEq(I(0), result.h) /\ Less(result.h, I(360))
           /\ result.branch \in 1 .. 6
           /\ LessEq(result.h, I(60 * result.branch))
           /\ result.branch > 1 => Greater(result.h, I(60 * (result.branch - 1)))
    /\ op = "fromRGB" =>
           /\ outcome = "returned"
           /\ result.branch \in {"grey", "r", "g", "b"}
           /\ result.value.z \in {clamp(args.RGB[i], I(0), I(1)) : i \in AxisNames}

\* C30: a negative hue, -90 degrees, was normalised to 270 and converted in
\* the fifth sextant
C30_NegativeHue ==
    /\ op = "toRGB"
    /\ args.HSV = vec3(I(-90), I(1), I(1))
    /\ result.h = I(270)
    /\ result.branch = 5
    /\ result.value = vec3(Rat(1, 2), I(0), I(1))

====
